---- MODULE Spec2Model ----
(***************************************************************************)
(* Chunked object storage of jotta-osd (object/mod.rs, object/meta.rs)     *)
(* over the byte ranges of jotta-fs (range.rs).                            *)
(*                                                                         *)
(* An object is a remote folder holding a `meta` file and numbered chunk   *)
(* files of at most CHUNK_SIZE bytes.  The remote store is the state; each *)
(* API call (create, upload_range, stream_range, patch) is a process that  *)
(* advances from one suspension point (remote call) to the next.           *)
(*                                                                         *)
(* File contents are kept as run lists: a run <<src, from, len>> stands    *)
(* for the bytes from .. from+len-1 of the payload of upload call `src`    *)
(* (src = 0: zero bytes).  All payload bytes are pairwise distinguishable, *)
(* so a misplaced, lost or duplicated byte changes the run list.           *)
(***************************************************************************)
EXTENDS Integers, Sequences, FiniteSets, TLC

VARIABLES
    chunks,   \* remote chunk files of the object: chunk index -> contents
    meta,     \* remote `meta` file of the object: <<>> or <<its contents>>
    clock,    \* OffsetDateTime::now_utc(), a logical clock
    pc,       \* per caller: where its current API call stands
    call,     \* per caller: the arguments of its current API call
    up,       \* per caller: local state of upload_range
    rd,       \* per caller: local state of stream_range and of its consumer
    hist,     \* completed upload_range calls, oldest first (history variable)
    used,     \* how many calls and injected failures the behaviour has had
    config,   \* the deployment: connections_per_request, and which callers run
    it        \* a stand-alone aligned_chunked_byte_range iterator

vars == <<chunks, meta, clock, pc, call, up, rd, hist, used, config, it>>

(***************************************************************************)
(* Constants of the program and bounds of the model                        *)
(***************************************************************************)

\* object/mod.rs:42  pub const CHUNK_SIZE: usize = 1 << 20
CHUNK_SIZE == 1048576

\* Stands for u64::MAX (object/mod.rs:276).  It is only ever used as
\* (u64::MAX - pos).min(CHUNK_SIZE), so any value that exceeds every
\* modelled position by at least CHUNK_SIZE behaves identically.
U64_MAX == 2147483647

\* Largest whole number of chunks in a modelled payload length or offset.
MaxChunks == 2

\* Largest num_connections a caller passes.
MaxConn == 2

\* Number of upload_range calls in one behaviour.
MaxUploads == 2

\* Number of stream_range calls in one behaviour.
MaxReads == 1

\* Number of patch calls in one behaviour.
MaxPatches == 1

\* Number of create calls in one behaviour.
MaxCreates == 1

\* Number of remote failures the environment injects in one behaviour.
MaxFaults == 1

\* Number of delete calls in one behaviour.
MaxDeletes == 1

\* Items an iterator may yield before the model stops pulling from it
\* (an iterator that does not advance would otherwise yield forever).
MaxItems == 5

None == -1

Min(a, b) == IF a < b THEN a ELSE b
Max(a, b) == IF a > b THEN a ELSE b

(***************************************************************************)
(* Byte strings as run lists                                               *)
(***************************************************************************)

Run(src, from, len) == [src |-> src, from |-> from, len |-> len]

\* n zero bytes (BytesMut::resize(_, 0))
Zeros(n) == IF n = 0 THEN <<>> ELSE <<Run(0, 0, n)>>

\* Bytes from .. from+n-1 of the payload of upload call `tag`
PayloadSlice(tag, from, n) == IF n = 0 THEN <<>> ELSE <<Run(tag, from, n)>>

Payload(tag, n) == PayloadSlice(tag, 0, n)

RECURSIVE BLen(_)
BLen(b) == IF b = <<>> THEN 0 ELSE Head(b).len + BLen(Tail(b))

Adjacent(x, y) ==
    /\ x.src = y.src
    /\ (x.src = 0 \/ x.from + x.len = y.from)

\* extend_from_slice: concatenation, kept in canonical form
BCat(a, b) ==
    IF a = <<>> THEN b
    ELSE IF b = <<>> THEN a
    ELSE IF Adjacent(a[Len(a)], Head(b))
         THEN SubSeq(a, 1, Len(a) - 1)
              \o <<Run(Head(b).src, a[Len(a)].from, a[Len(a)].len + Head(b).len)>>
              \o Tail(b)
         ELSE a \o b

\* the first n bytes of b (all of b when it is shorter)
RECURSIVE BTake(_, _)
BTake(b, n) ==
    IF n <= 0 \/ b = <<>> THEN <<>>
    ELSE IF Head(b).len <= n
         THEN <<Head(b)>> \o BTake(Tail(b), n - Head(b).len)
         ELSE <<Run(Head(b).src, Head(b).from, n)>>

\* b without its first n bytes
RECURSIVE BDrop(_, _)
BDrop(b, n) ==
    IF n <= 0 \/ b = <<>> THEN b
    ELSE IF Head(b).len <= n
         THEN BDrop(Tail(b), n - Head(b).len)
         ELSE <<Run(Head(b).src,
                    IF Head(b).src = 0 THEN 0 ELSE Head(b).from + n,
                    Head(b).len - n)>> \o Tail(b)

(***************************************************************************)
(* jotta-fs/src/range.rs                                                   *)
(***************************************************************************)

\* ClosedByteRange::new(start, len)
ClosedByteRange(start, len) == [start |-> start, len |-> len]

\* OpenByteRange::new(start); ByteRange::len is None
OpenByteRange(start) == [start |-> start, len |-> None]

RangeErr == [start |-> -1, len |-> -1]

\* last - first + 1 leaves u64: only for the bounds 0 and u64::MAX
BoundsOverflow(first, last) == first <= last /\ last - first = U64_MAX

\* ClosedByteRange::try_from_bounds(first, last), wrapping
try_from_bounds(first, last) ==
    IF first > last THEN RangeErr
    ELSE IF BoundsOverflow(first, last) THEN ClosedByteRange(first, 0)
    ELSE ClosedByteRange(first, last - first + 1)

\* ClosedByteRange::new_to_including(end)
new_to_including(end) == ClosedByteRange(0, end + 1)

\* ByteRange::end computes len + start - 1 in u64: it leaves u64 exactly
\* when len + start = 0.
EndOverflows(range) == range.len # None /\ range.len + range.start - 1 < 0

\* ClosedByteRange::end computes start + len - 1 in u64: the sum leaves u64
\* from above when start + len > u64::MAX, the difference from below when
\* start + len = 0
ClosedEndOverflows(range) ==
    \/ range.start > U64_MAX - range.len
    \/ range.start + range.len = 0

\* ClosedByteRange::end, wrapping
ClosedByteRange_end(range) ==
    IF range.start > U64_MAX - range.len
    THEN IF range.start - (U64_MAX - range.len) = 1 THEN U64_MAX
         ELSE range.start - (U64_MAX - range.len) - 2
    ELSE IF range.start + range.len = 0 THEN U64_MAX
    ELSE range.start + range.len - 1

\* ByteRange::end, the last byte of the range (inclusive), wrapping
ByteRange_end(range) ==
    IF range.len = None THEN None
    ELSE IF EndOverflows(range) THEN U64_MAX
    ELSE range.len + range.start - 1

(***************************************************************************)
(* object/mod.rs: aligned_chunked_byte_range                               *)
(***************************************************************************)

IterNone == [kind |-> "None"]
IterPanic == [kind |-> "Panic"]
IterSome(chunk_no, chunk, pos) ==
    [kind |-> "Some", chunk_no |-> chunk_no, chunk |-> chunk, pos |-> pos]

\* One call of the closure passed to iter::from_fn, with the iterator at
\* `pos`.  `checks` is the build's overflow-checks setting: with it an
\* arithmetic overflow panics, without it the result wraps.
aligned_chunked_byte_range(range, pos, checks) ==
    LET end == ByteRange_end(range)
        endv == IF end = None THEN U64_MAX ELSE end
        chunk_no == pos \div CHUNK_SIZE
        chunk_start == pos % CHUNK_SIZE
        underflow == endv - pos < 0
        chunk_end == IF underflow THEN CHUNK_SIZE
                     ELSE Min(endv - pos, CHUNK_SIZE)
        chunk == try_from_bounds(chunk_start, chunk_end)
    IN  IF checks /\ (EndOverflows(range) \/ underflow) THEN IterPanic
        ELSE IF chunk_end = 0 THEN IterNone
        ELSE IF chunk = RangeErr THEN IterPanic
        ELSE IterSome(chunk_no, chunk, pos + (chunk_end - chunk_start))

\* The builds that differ on `range`: overflow checks only matter for a
\* range whose arithmetic leaves u64, which takes an empty range
Builds(range) == IF range.len = 0 THEN BOOLEAN ELSE {FALSE}

\* The items the iterator yields from `pos` on, at most `fuel` of them
RECURSIVE Plan(_, _, _, _)
Plan(range, pos, checks, fuel) ==
    LET r == aligned_chunked_byte_range(range, pos, checks)
    IN  IF fuel = 0 \/ r.kind # "Some" THEN <<>>
        ELSE <<[chunk_no |-> r.chunk_no, chunk |-> r.chunk]>>
             \o Plan(range, r.pos, checks, fuel - 1)

\* How the iterator ends within `fuel` items: "None", "Panic" or "Some"
\* (still yielding)
RECURSIVE PlanEnd(_, _, _, _)
PlanEnd(range, pos, checks, fuel) ==
    LET r == aligned_chunked_byte_range(range, pos, checks)
    IN  IF fuel = 0 \/ r.kind # "Some" THEN r.kind
        ELSE PlanEnd(range, r.pos, checks, fuel - 1)

(***************************************************************************)
(* The remote filesystem (jotta::Fs), seen through the calls the object    *)
(* layer makes                                                             *)
(***************************************************************************)

Ok(bytes) == [ok |-> TRUE, err |-> "", bytes |-> bytes]
Err(e) == [ok |-> FALSE, err |-> e, bytes |-> <<>>]

\* The chunk file with index n, as an optional value: <<>> or <<contents>>
ChunkFile(n) == IF n \in DOMAIN chunks THEN <<chunks[n]>> ELSE <<>>

\* Fs::file_to_bytes(path, range) on the optional file f: a GET with
\* `Range: bytes=start-[end]`.  A missing file is NoSuchFileOrFolder, a first
\* byte at or beyond the end of the file is RangeNotSatisfiable, and a last
\* byte beyond the end of the file is clipped to the file.
file_to_bytes(f, range) ==
    IF f = <<>> THEN Err("NoSuchFileOrFolder")
    ELSE LET n == BLen(f[1])
             end == ByteRange_end(range)
             last == IF end = None THEN n - 1 ELSE Min(end, n - 1)
         IN  IF range.start >= n THEN Err("RangeNotSatisfiable")
             ELSE Ok(BTake(BDrop(f[1], range.start), last - range.start + 1))

\* allocate + upload_range of one whole file revision at chunk index n
PutChunk(n, body) ==
    [i \in DOMAIN chunks \cup {n} |-> IF i = n THEN body ELSE chunks[i]]

(***************************************************************************)
(* Callers and their local state                                           *)
(***************************************************************************)

\* The tasks that call the object API (request handlers)
Procs == {"a", "b"}

Finished == {"idle", "done", "failed", "panicked"}

NoCall == [op |-> "none", offset |-> 0, len |-> 0, tag |-> 0, conn |-> 0,
           range |-> ClosedByteRange(0, 0), checks |-> FALSE,
           patch |-> [content_type |-> "", cache_control |-> ""]]

\* upload_range: pos and fpos are the unfold state (next object position,
\* bytes consumed from `file`); gen is where chunk generation stands
\* ("start": before get_complete_chunk, "tail": before its tail read,
\* "end": the chunk stream returned None); cur is the chunk being built;
\* inflight is try_buffer_unordered's in_progress_queue; m is the Meta the
\* call is about to write and prev the size it read; err is the error the
\* call returned.  issued (chunk indices whose upload was started), uploaded
\* (chunk indices whose upload returned Ok), before (the metadata when the
\* call began), wrote (the call stored its metadata) and failed_in (the step
\* that failed) are history.
NoUp == [pos |-> 0, fpos |-> 0, gen |-> "end", cur |-> <<>>,
         inflight |-> {}, bytes_uploaded |-> 0, m |-> <<>>, prev |-> 0,
         issued |-> {}, uploaded |-> {}, before |-> <<>>, wrote |-> FALSE,
         err |-> "", failed_in |-> ""]

\* stream_range: pos is the iterator position, ended whether the iterator
\* returned None, queue is `buffered`'s in-order queue of reads, out the
\* bytes the consumer has received, err the error it received.  pulled
\* (items taken from the iterator), yielded (Ok results handed to the
\* consumer) and completed (plan indices of the reads in the order they
\* completed) are history.
NoRd == [pos |-> 0, ended |-> TRUE, queue |-> <<>>, out |-> <<>>,
         pulled |-> 0, yielded |-> 0, completed |-> <<>>, err |-> ""]

\* object/meta.rs:43  struct Meta
Meta(size, created, updated, content_type, cache_control) ==
    [size |-> size, created |-> created, updated |-> updated,
     content_type |-> content_type, cache_control |-> cache_control]

\* ContentType::default(), CacheControl::default()
DefaultContentType == "application/octet-stream"
DefaultCacheControl == "public, max-age=3600"

\* object/meta.rs:126  struct Patch; "" is an absent field
Patches ==
    { [content_type |-> "", cache_control |-> ""],
      [content_type |-> "text/plain", cache_control |-> ""],
      [content_type |-> "", cache_control |-> "no-store"] }

\* Patch::is_empty
is_empty(patch) == patch = [content_type |-> "", cache_control |-> ""]

\* Meta::patch that takes both fields from the Patch, absent or not
Meta_patch_replace(m, patch) ==
    [m EXCEPT !.content_type = patch.content_type,
              !.cache_control = patch.cache_control]

\* Meta::patch
Meta_patch(m, patch) ==
    [m EXCEPT !.content_type =
                  IF patch.content_type # "" THEN patch.content_type ELSE @,
              !.cache_control =
                  IF patch.cache_control # "" THEN patch.cache_control ELSE @]

\* The fields rmp_serde::to_vec writes for a Meta, all of which
\* rmp_serde::from_slice needs to build one
MetaFields == {"size", "created", "updated", "content_type", "cache_control"}

\* rmp_serde::from_slice::<Meta>(msg)
from_slice(msg) ==
    IF DOMAIN msg = MetaFields
    THEN [ok |-> TRUE, err |-> "", m |-> <<msg>>]
    ELSE [ok |-> FALSE, err |-> "DecodeError", m |-> <<>>]

\* get with every failure reported as a missing file
get_conflated(f) ==
    IF f = <<>> \/ ~from_slice(f[1]).ok
    THEN [ok |-> FALSE, err |-> "NoSuchFileOrFolder", m |-> <<>>]
    ELSE from_slice(f[1])

\* meta::get on the optional meta file f: file_to_bytes over the whole
\* file, then from_slice
get(f) ==
    IF f = <<>>
    THEN [ok |-> FALSE, err |-> "NoSuchFileOrFolder", m |-> <<>>]
    ELSE from_slice(f[1])

(***************************************************************************)
(* Inputs                                                                  *)
(***************************************************************************)

\* Payload lengths: empty, a few bytes, and around whole chunks
Lens == {0, 1, 2, CHUNK_SIZE, (MaxChunks - 1) * CHUNK_SIZE + 1}

\* Offsets of upload_range: the start, inside the first chunk, around the
\* first chunk boundary
Offsets == {0, 1, CHUNK_SIZE - 1, CHUNK_SIZE}

\* num_connections
Conns == 1 .. MaxConn

\* Where the bytes written by the successful calls of h end
RECURSIVE WrittenEnd(_)
WrittenEnd(h) ==
    IF h = <<>> THEN 0
    ELSE LET e == h[Len(h)]
         IN  Max(WrittenEnd(SubSeq(h, 1, Len(h) - 1)),
                 IF e.res = "ok" THEN e.offset + e.len ELSE 0)

\* The lengths n of the ranges [0, n) a reader asks for: the object's
\* length as the caller wrote it and as the metadata reports it
ReadLens ==
    {WrittenEnd(hist)} \cup (IF get(meta).ok THEN {meta[1].size} ELSE {})

(***************************************************************************)
(* Initial state: an empty root, no object yet                             *)
(***************************************************************************)

NoIt == [range |-> ClosedByteRange(0, 0), checks |-> FALSE, pos |-> 0,
         items |-> <<>>, status |-> "unused"]

InitStore ==
    /\ chunks = [n \in {} |-> <<>>]
    /\ meta = <<>>
    /\ clock = 1
    /\ pc = [p \in Procs |-> "idle"]
    /\ call = [p \in Procs |-> NoCall]
    /\ up = [p \in Procs |-> NoUp]
    /\ rd = [p \in Procs |-> NoRd]
    /\ hist = <<>>
    /\ used = [creates |-> 0, uploads |-> 0, reads |-> 0, patches |-> 0,
               faults |-> 0, deletes |-> 0]

\* The caller passes the configured connections_per_request as
\* num_connections.  One caller makes its calls one after another.
Configs == [connections : Conns, callers : {{"a"}}]

\* Two callers, whose calls overlap
ConcConfigs == [connections : Conns, callers : {Procs}]

Init ==
    /\ InitStore
    /\ config \in Configs
    /\ it = NoIt

\* A caller runs one call at a time
Idle(p) == p \in config.callers /\ pc[p] \in Finished

(***************************************************************************)
(* object/mod.rs: create                                                   *)
(***************************************************************************)

\* create whose set_raw stores a new revision over an existing meta file
create_overwrites(p, patch) ==
    /\ Idle(p)
    /\ used.creates < MaxCreates
    /\ used' = [used EXCEPT !.creates = @ + 1]
    /\ call' = [call EXCEPT ![p] = [NoCall EXCEPT !.op = "create"]]
    /\ up' = [up EXCEPT ![p] = [NoUp EXCEPT !.before = meta]]
    /\ rd' = [rd EXCEPT ![p] = NoRd]
    /\ pc' = [pc EXCEPT ![p] = "done"]
    /\ meta' = <<Meta(0, clock, clock,
           IF patch.content_type # "" THEN patch.content_type
           ELSE DefaultContentType,
           IF patch.cache_control # "" THEN patch.cache_control
           ELSE DefaultCacheControl)>>
    /\ clock' = clock + 1
    /\ UNCHANGED <<chunks, hist, config, it>>

\* create(ctx, bucket, name, patch): set_raw with RejectConflicts
create(p, patch) ==
    /\ Idle(p)
    /\ used.creates < MaxCreates
    /\ used' = [used EXCEPT !.creates = @ + 1]
    /\ call' = [call EXCEPT ![p] = [NoCall EXCEPT !.op = "create"]]
    /\ up' = [up EXCEPT ![p] = [NoUp EXCEPT !.before = meta,
                  !.err = IF meta # <<>> THEN "AlreadyExists" ELSE ""]]
    /\ rd' = [rd EXCEPT ![p] = NoRd]
    /\ IF meta # <<>>
       THEN /\ pc' = [pc EXCEPT ![p] = "failed"]
            /\ UNCHANGED meta
       ELSE /\ pc' = [pc EXCEPT ![p] = "done"]
            /\ meta' = <<Meta(0, clock, clock,
                   IF patch.content_type # "" THEN patch.content_type
                   ELSE DefaultContentType,
                   IF patch.cache_control # "" THEN patch.cache_control
                   ELSE DefaultCacheControl)>>
    /\ clock' = clock + 1
    /\ UNCHANGED <<chunks, hist, config, it>>

(***************************************************************************)
(* object/mod.rs: upload_range                                             *)
(***************************************************************************)

\* The call fails with error e: the error is returned, the chunk stream and
\* the uploads in flight are dropped
Fail(p, e, step) ==
    /\ pc' = [pc EXCEPT ![p] = "failed"]
    /\ up' = [up EXCEPT ![p].err = e, ![p].inflight = {},
                        ![p].failed_in = step]
    /\ hist' = Append(hist, [offset |-> call[p].offset, len |-> call[p].len,
                             tag |-> call[p].tag, res |-> "failed",
                             prev |-> 0, size |-> 0])

\* upload_range(ctx, bucket, name, offset, file, num_connections), up to
\* its first suspension point; file holds len bytes
upload_range(p, offset, len) ==
    /\ Idle(p)
    /\ used.uploads < MaxUploads
    /\ used' = [used EXCEPT !.uploads = @ + 1]
    /\ pc' = [pc EXCEPT ![p] = "upload"]
    /\ call' = [call EXCEPT ![p] =
           [NoCall EXCEPT !.op = "upload_range", !.offset = offset,
                          !.len = len, !.tag = used.uploads + 1,
                          !.conn = config.connections]]
    /\ up' = [up EXCEPT ![p] =
           [NoUp EXCEPT !.pos = offset, !.gen = "start", !.before = meta]]
    /\ rd' = [rd EXCEPT ![p] = NoRd]
    /\ UNCHANGED <<chunks, meta, clock, hist, config, it>>

\* CanGenerate of a stream that starts every upload at once
CanGenerate_unbounded(p) ==
    pc[p] = "upload"

\* The chunk stream is polled only while fewer than num_connections
\* uploads are in flight (TryBufferUnordered::poll_next)
CanGenerate(p) ==
    /\ pc[p] = "upload"
    /\ Cardinality(up[p].inflight) < call[p].conn

\* The unfold state after chunk chunk_no was produced
NextPos(chunk_no) == CHUNK_SIZE * (chunk_no + 1)

\* The chunk (chunk_no, buf) leaves the chunk stream and its upload starts
Yield(p, chunk_no, buf, fpos) ==
    up' = [up EXCEPT ![p].pos = NextPos(chunk_no),
                     ![p].fpos = fpos,
                     ![p].gen = "start",
                     ![p].cur = <<>>,
                     ![p].inflight = @ \cup
                         {[chunk_no |-> chunk_no, buf |-> buf]},
                     ![p].issued = @ \cup {chunk_no}]

\* get_complete_chunk that takes a head it cannot read as empty, leaving
\* zeros in its place
get_complete_chunk_zeros(p) ==
    /\ CanGenerate(p)
    /\ up[p].gen = "start"
    /\ LET pos == up[p].pos
           chunk_align == pos % CHUNK_SIZE
           chunk_no == pos \div CHUNK_SIZE
           b == IF chunk_align # 0
                    /\ file_to_bytes(ChunkFile(chunk_no),
                                     new_to_including(chunk_align - 1)).ok
                THEN file_to_bytes(ChunkFile(chunk_no),
                                   new_to_including(chunk_align - 1))
                ELSE Ok(<<>>)
           head == BCat(b.bytes, Zeros(chunk_align - BLen(b.bytes)))
           n == Min(CHUNK_SIZE - chunk_align, call[p].len - up[p].fpos)
           buf == BCat(head, PayloadSlice(call[p].tag, up[p].fpos, n))
           cursor == chunk_align + n
       IN  IF ~b.ok
           THEN /\ Fail(p, b.err, "chunk_read")
                /\ UNCHANGED <<chunks, meta, clock, call, rd, used, config, it>>
           ELSE /\ IF cursor = 0
                   THEN up' = [up EXCEPT ![p].gen = "end"]
                   ELSE IF cursor < CHUNK_SIZE
                   THEN up' = [up EXCEPT ![p].gen = "tail",
                                         ![p].fpos = @ + n,
                                         ![p].cur = <<[chunk_no |-> chunk_no,
                                                       buf |-> buf]>>]
                   ELSE Yield(p, chunk_no, buf, up[p].fpos + n)
                /\ UNCHANGED <<chunks, meta, clock, pc, call, rd, hist, used, config, it>>

\* get_complete_chunk without the check for an empty buffer: it goes on to
\* the tail read with nothing in the chunk
get_complete_chunk_no_none(p) ==
    /\ CanGenerate(p)
    /\ up[p].gen = "start"
    /\ LET pos == up[p].pos
           chunk_align == pos % CHUNK_SIZE
           chunk_no == pos \div CHUNK_SIZE
           b == IF chunk_align # 0
                THEN file_to_bytes(ChunkFile(chunk_no),
                                   new_to_including(chunk_align - 1))
                ELSE Ok(<<>>)
           head == BCat(b.bytes, Zeros(chunk_align - BLen(b.bytes)))
           n == Min(CHUNK_SIZE - chunk_align, call[p].len - up[p].fpos)
           buf == BCat(head, PayloadSlice(call[p].tag, up[p].fpos, n))
           cursor == chunk_align + n
       IN  IF ~b.ok
           THEN /\ Fail(p, b.err, "chunk_read")
                /\ UNCHANGED <<chunks, meta, clock, call, rd, used, config, it>>
           ELSE /\ IF cursor < CHUNK_SIZE
                   THEN up' = [up EXCEPT ![p].gen = "tail",
                                         ![p].fpos = @ + n,
                                         ![p].cur = <<[chunk_no |-> chunk_no,
                                                       buf |-> buf]>>]
                   ELSE Yield(p, chunk_no, buf, up[p].fpos + n)
                /\ UNCHANGED <<chunks, meta, clock, pc, call, rd, hist, used, config, it>>

\* get_complete_chunk up to its tail read: the head of the existing chunk,
\* then as much of `file` as the chunk holds
get_complete_chunk(p) ==
    /\ CanGenerate(p)
    /\ up[p].gen = "start"
    /\ LET pos == up[p].pos
           chunk_align == pos % CHUNK_SIZE
           chunk_no == pos \div CHUNK_SIZE
           b == IF chunk_align # 0
                THEN file_to_bytes(ChunkFile(chunk_no),
                                   new_to_including(chunk_align - 1))
                ELSE Ok(<<>>)
           head == BCat(b.bytes, Zeros(chunk_align - BLen(b.bytes)))
           n == Min(CHUNK_SIZE - chunk_align, call[p].len - up[p].fpos)
           buf == BCat(head, PayloadSlice(call[p].tag, up[p].fpos, n))
           cursor == chunk_align + n
       IN  IF ~b.ok
           THEN /\ Fail(p, b.err, "chunk_read")
                /\ UNCHANGED <<chunks, meta, clock, call, rd, used, config, it>>
           ELSE /\ IF cursor = 0
                   THEN up' = [up EXCEPT ![p].gen = "end"]
                   ELSE IF cursor < CHUNK_SIZE
                   THEN up' = [up EXCEPT ![p].gen = "tail",
                                         ![p].fpos = @ + n,
                                         ![p].cur = <<[chunk_no |-> chunk_no,
                                                       buf |-> buf]>>]
                   ELSE Yield(p, chunk_no, buf, up[p].fpos + n)
                /\ UNCHANGED <<chunks, meta, clock, pc, call, rd, hist, used, config, it>>

\* get_complete_chunk_tail that takes every failed tail read as an empty tail
get_complete_chunk_tail_lenient(p) ==
    /\ CanGenerate(p)
    /\ up[p].gen = "tail"
    /\ LET chunk_no == up[p].cur[1].chunk_no
           buf == up[p].cur[1].buf
           cursor == BLen(buf)
           r == file_to_bytes(ChunkFile(chunk_no), OpenByteRange(cursor))
           tail == IF r.ok THEN r.bytes ELSE <<>>
       IN  IF ~r.ok /\ r.err \notin {"NoSuchFileOrFolder", "RangeNotSatisfiable"}
           THEN /\ Fail(p, r.err, "chunk_read")
                /\ UNCHANGED <<chunks, meta, clock, call, rd, used, config, it>>
           ELSE /\ Yield(p, chunk_no, BCat(buf, tail), up[p].fpos)
                /\ UNCHANGED <<chunks, meta, clock, pc, call, rd, hist, used, config, it>>

\* get_complete_chunk from its tail read on: the chunk is shorter than
\* CHUNK_SIZE, so the rest of the existing chunk is appended
get_complete_chunk_tail(p) ==
    /\ CanGenerate(p)
    /\ up[p].gen = "tail"
    /\ LET chunk_no == up[p].cur[1].chunk_no
           buf == up[p].cur[1].buf
           cursor == BLen(buf)
           r == file_to_bytes(ChunkFile(chunk_no), OpenByteRange(cursor))
           tail == IF r.ok THEN r.bytes ELSE <<>>
       IN  IF ~r.ok /\ r.err # "NoSuchFileOrFolder"
           THEN /\ Fail(p, r.err, "chunk_read")
                /\ UNCHANGED <<chunks, meta, clock, call, rd, used, config, it>>
           ELSE /\ Yield(p, chunk_no, BCat(buf, tail), up[p].fpos)
                /\ UNCHANGED <<chunks, meta, clock, pc, call, rd, hist, used, config, it>>

\* A head read, tail read or read of `file` fails with a transport error
chunk_read_error(p) ==
    /\ CanGenerate(p)
    /\ up[p].gen \in {"start", "tail"}
    /\ used.faults < MaxFaults
    /\ used' = [used EXCEPT !.faults = @ + 1]
    /\ Fail(p, "HttpError", "chunk_read")
    /\ UNCHANGED <<chunks, meta, clock, call, rd, config, it>>

\* upload() of a chunk in flight: the remote stores the new revision of the
\* chunk file, upload() returns Ok(size) and the loop adds it
\* (bytes_uploaded += res?)
upload(p, u) ==
    /\ pc[p] = "upload"
    /\ u \in up[p].inflight
    /\ chunks' = PutChunk(u.chunk_no, u.buf)
    /\ up' = [up EXCEPT ![p].inflight = @ \ {u},
                        ![p].uploaded = @ \cup {u.chunk_no},
                        ![p].bytes_uploaded = @ + BLen(u.buf)]
    /\ UNCHANGED <<meta, clock, pc, call, rd, hist, used, config, it>>

\* upload_error that commits the bytes uploaded so far to the metadata
upload_error_commits(p, u, stored) ==
    /\ pc[p] = "upload"
    /\ u \in up[p].inflight
    /\ used.faults < MaxFaults
    /\ used' = [used EXCEPT !.faults = @ + 1]
    /\ chunks' = IF stored THEN PutChunk(u.chunk_no, u.buf) ELSE chunks
    /\ Fail(p, "HttpError", "upload")
    /\ meta' = IF meta = <<>> THEN meta
               ELSE <<[meta[1] EXCEPT
                         !.size = Max(@, up[p].bytes_uploaded + call[p].offset)]>>
    /\ UNCHANGED <<clock, call, rd, config, it>>

\* allocate or upload_range of a chunk fails, before the remote stored the
\* revision or after it (the response is lost): res? returns the error
upload_error(p, u, stored) ==
    /\ pc[p] = "upload"
    /\ u \in up[p].inflight
    /\ used.faults < MaxFaults
    /\ used' = [used EXCEPT !.faults = @ + 1]
    /\ chunks' = IF stored THEN PutChunk(u.chunk_no, u.buf) ELSE chunks
    /\ Fail(p, "HttpError", "upload")
    /\ UNCHANGED <<meta, clock, call, rd, config, it>>

\* The remote answers UploadRes::Incomplete:
\* assert!(matches!(res, UploadRes::Complete(_))) panics
upload_incomplete(p, u) ==
    /\ pc[p] = "upload"
    /\ u \in up[p].inflight
    /\ used.faults < MaxFaults
    /\ used' = [used EXCEPT !.faults = @ + 1]
    /\ pc' = [pc EXCEPT ![p] = "panicked"]
    /\ up' = [up EXCEPT ![p].err = "panic", ![p].inflight = {},
                        ![p].failed_in = "upload"]
    /\ hist' = Append(hist, [offset |-> call[p].offset, len |-> call[p].len,
                             tag |-> call[p].tag, res |-> "panicked",
                             prev |-> 0, size |-> 0])
    /\ UNCHANGED <<chunks, meta, clock, call, rd, config, it>>

\* upload_range_get with the new size taken from this call alone
\* (bytes_uploaded + offset instead of meta.size.max(..))
upload_range_get_nomax(p) ==
    /\ pc[p] = "upload"
    /\ up[p].gen = "end"
    /\ up[p].inflight = {}
    /\ IF ~get(meta).ok
       THEN /\ Fail(p, get(meta).err, "meta_get")
            /\ UNCHANGED clock
       ELSE /\ pc' = [pc EXCEPT ![p] = "upload_set"]
            /\ up' = [up EXCEPT ![p].prev = meta[1].size, ![p].m =
                   <<[meta[1] EXCEPT
                        !.size = up[p].bytes_uploaded + call[p].offset,
                        !.updated = clock]>>]
            /\ clock' = clock + 1
            /\ UNCHANGED hist
    /\ UNCHANGED <<chunks, meta, call, rd, used, config, it>>

\* upload_range_get that does not drain the uploads in flight (the loop
\* `while let Some(res) = futs.next().await` left after the chunk stream ended)
upload_range_get_early(p) ==
    /\ pc[p] = "upload"
    /\ up[p].gen = "end"
    /\ IF ~get(meta).ok
       THEN /\ Fail(p, get(meta).err, "meta_get")
            /\ UNCHANGED clock
       ELSE /\ pc' = [pc EXCEPT ![p] = "upload_set"]
            /\ up' = [up EXCEPT ![p].prev = meta[1].size, ![p].m =
                   <<[meta[1] EXCEPT
                        !.size = Max(@, up[p].bytes_uploaded + call[p].offset),
                        !.updated = clock]>>]
            /\ clock' = clock + 1
            /\ UNCHANGED hist
    /\ UNCHANGED <<chunks, meta, call, rd, used, config, it>>

\* upload_range_get that builds the new Meta from defaults instead of
\* `..meta`
upload_range_get_defaults(p) ==
    /\ pc[p] = "upload"
    /\ up[p].gen = "end"
    /\ up[p].inflight = {}
    /\ IF ~get(meta).ok
       THEN /\ Fail(p, get(meta).err, "meta_get")
            /\ UNCHANGED clock
       ELSE /\ pc' = [pc EXCEPT ![p] = "upload_set"]
            /\ up' = [up EXCEPT ![p].prev = meta[1].size, ![p].m =
                   <<Meta(Max(meta[1].size,
                              up[p].bytes_uploaded + call[p].offset),
                          meta[1].created, clock,
                          DefaultContentType, DefaultCacheControl)>>]
            /\ clock' = clock + 1
            /\ UNCHANGED hist
    /\ UNCHANGED <<chunks, meta, call, rd, used, config, it>>

\* The upload stream is exhausted; meta::get reads the metadata and the new
\* Meta is built from it
upload_range_get(p) ==
    /\ pc[p] = "upload"
    /\ up[p].gen = "end"
    /\ up[p].inflight = {}
    /\ IF ~get(meta).ok
       THEN /\ Fail(p, get(meta).err, "meta_get")
            /\ UNCHANGED clock
       ELSE /\ pc' = [pc EXCEPT ![p] = "upload_set"]
            /\ up' = [up EXCEPT ![p].prev = meta[1].size, ![p].m =
                   <<[meta[1] EXCEPT
                        !.size = Max(@, up[p].bytes_uploaded + call[p].offset),
                        !.updated = clock]>>]
            /\ clock' = clock + 1
            /\ UNCHANGED hist
    /\ UNCHANGED <<chunks, meta, call, rd, used, config, it>>

\* set_raw with CreateNewRevision stores the new Meta; upload_range returns it
upload_range_set(p) ==
    /\ pc[p] = "upload_set"
    /\ meta' = up[p].m
    /\ pc' = [pc EXCEPT ![p] = "done"]
    /\ up' = [up EXCEPT ![p].wrote = TRUE]
    /\ hist' = Append(hist, [offset |-> call[p].offset, len |-> call[p].len,
                             tag |-> call[p].tag, res |-> "ok",
                             prev |-> up[p].prev,
                             size |-> up[p].m[1].size])
    /\ UNCHANGED <<chunks, clock, call, rd, used, config, it>>

\* set_raw fails: allocate or upload_range of the meta file returns an
\* error or UploadRes::Incomplete
upload_range_set_error(p) ==
    /\ pc[p] = "upload_set"
    /\ used.faults < MaxFaults
    /\ used' = [used EXCEPT !.faults = @ + 1]
    /\ Fail(p, "IncompleteUpload", "meta_set")
    /\ UNCHANGED <<chunks, meta, clock, call, rd, config, it>>

(***************************************************************************)
(* object/mod.rs: stream_range and its consumer                            *)
(***************************************************************************)

\* stream_range(ctx, bucket, object, range, num_connections); the consumer
\* polls the stream until it ends or yields an error.  checks: the build
\* panics on arithmetic overflow instead of wrapping.
stream_range(p, range, checks) ==
    /\ Idle(p)
    /\ used.reads < MaxReads
    /\ used' = [used EXCEPT !.reads = @ + 1]
    /\ pc' = [pc EXCEPT ![p] = "stream"]
    /\ call' = [call EXCEPT ![p] =
           [NoCall EXCEPT !.op = "stream_range", !.range = range,
                          !.conn = config.connections,
                          !.checks = checks]]
    /\ rd' = [rd EXCEPT ![p] = [NoRd EXCEPT !.pos = range.start,
                                            !.ended = FALSE]]
    /\ up' = [up EXCEPT ![p] = NoUp]
    /\ UNCHANGED <<chunks, meta, clock, hist, config, it>>

\* Buffered::poll_next takes items from the iterator while fewer than
\* num_connections reads are queued
CanPull(p) ==
    /\ pc[p] = "stream"
    /\ ~rd[p].ended
    /\ Len(rd[p].queue) < call[p].conn
    /\ rd[p].pulled < MaxItems

\* The next item of aligned_chunked_byte_range becomes a queued future.  The
\* future is lazy: its file_to_bytes call is issued when it is first polled.
stream_pull(p) ==
    /\ CanPull(p)
    /\ LET r == aligned_chunked_byte_range(call[p].range, rd[p].pos,
                                           call[p].checks)
       IN  /\ r.kind = "Some"
           /\ rd' = [rd EXCEPT ![p].pos = r.pos,
                               ![p].pulled = @ + 1,
                               ![p].queue = Append(@,
                                   [idx |-> rd[p].pulled + 1,
                                    chunk_no |-> r.chunk_no,
                                    chunk |-> r.chunk,
                                    started |-> FALSE,
                                    done |-> FALSE, res |-> Ok(<<>>)])]
    /\ UNCHANGED <<chunks, meta, clock, pc, call, up, hist, used, config, it>>

\* The iterator returns None
stream_exhausted(p) ==
    /\ CanPull(p)
    /\ aligned_chunked_byte_range(call[p].range, rd[p].pos,
                                  call[p].checks).kind = "None"
    /\ rd' = [rd EXCEPT ![p].ended = TRUE]
    /\ UNCHANGED <<chunks, meta, clock, pc, call, up, hist, used, config, it>>

\* The iterator panics inside the consumer's poll
stream_panic(p) ==
    /\ CanPull(p)
    /\ aligned_chunked_byte_range(call[p].range, rd[p].pos,
                                  call[p].checks).kind = "Panic"
    /\ pc' = [pc EXCEPT ![p] = "panicked"]
    /\ rd' = [rd EXCEPT ![p].err = "panic", ![p].queue = <<>>]
    /\ UNCHANGED <<chunks, meta, clock, call, up, hist, used, config, it>>

\* The read of queue entry i completes with what file_to_bytes returns
read_complete(p, i) ==
    /\ pc[p] = "stream"
    /\ i \in 1 .. Len(rd[p].queue)
    /\ rd[p].queue[i].started
    /\ ~rd[p].queue[i].done
    /\ rd' = [rd EXCEPT ![p].queue[i].done = TRUE,
                        ![p].queue[i].res =
                            file_to_bytes(ChunkFile(rd[p].queue[i].chunk_no),
                                          rd[p].queue[i].chunk),
                        ![p].completed = Append(@, rd[p].queue[i].idx)]
    /\ UNCHANGED <<chunks, meta, clock, pc, call, up, hist, used, config, it>>

\* NextToYield of buffer_unordered: any completed read
NextToYield_unordered(p) ==
    {i \in 1 .. Len(rd[p].queue) : rd[p].queue[i].done}

\* Which queued read `buffered` hands to the consumer next: the oldest
\* (FuturesOrdered), once it has completed
NextToYield(p) ==
    IF rd[p].queue # <<>> /\ rd[p].queue[1].done THEN {1} ELSE {}

\* FuturesOrdered::poll_next, when the oldest result is not there yet, polls
\* the queued futures: those pulled since the last poll issue their reads
stream_start(p) ==
    /\ pc[p] = "stream"
    /\ ~CanPull(p)
    /\ NextToYield(p) = {}
    /\ \E i \in 1 .. Len(rd[p].queue) : ~rd[p].queue[i].started
    /\ rd' = [rd EXCEPT ![p].queue =
                  [i \in 1 .. Len(@) |-> [@[i] EXCEPT !.started = TRUE]]]
    /\ UNCHANGED <<chunks, meta, clock, pc, call, up, hist, used, config, it>>

\* The stream yields the next result; the consumer appends the bytes, or
\* stops at an error
stream_yield(p) ==
    /\ pc[p] = "stream"
    /\ ~CanPull(p)
    /\ \E i \in NextToYield(p) :
         LET e == rd[p].queue[i]
             rest == SubSeq(rd[p].queue, 1, i - 1)
                     \o SubSeq(rd[p].queue, i + 1, Len(rd[p].queue))
         IN  IF e.res.ok
             THEN /\ rd' = [rd EXCEPT ![p].queue = rest,
                                      ![p].yielded = @ + 1,
                                      ![p].out = BCat(@, e.res.bytes)]
                  /\ UNCHANGED pc
             ELSE /\ rd' = [rd EXCEPT ![p].queue = <<>>,
                                      ![p].err = e.res.err]
                  /\ pc' = [pc EXCEPT ![p] = "failed"]
    /\ UNCHANGED <<chunks, meta, clock, call, up, hist, used, config, it>>

\* The iterator is exhausted and every read was yielded: the stream ends
stream_end(p) ==
    /\ pc[p] = "stream"
    /\ rd[p].ended
    /\ rd[p].queue = <<>>
    /\ pc' = [pc EXCEPT ![p] = "done"]
    /\ UNCHANGED <<chunks, meta, clock, call, up, rd, hist, used, config, it>>

(***************************************************************************)
(* object/meta.rs: patch                                                   *)
(***************************************************************************)

\* patch that stores the record whether or not the Patch is empty
patch_unconditional(p, pt) ==
    /\ Idle(p)
    /\ used.patches < MaxPatches
    /\ used' = [used EXCEPT !.patches = @ + 1]
    /\ call' = [call EXCEPT ![p] = [NoCall EXCEPT !.op = "patch",
                                                   !.patch = pt]]
    /\ rd' = [rd EXCEPT ![p] = NoRd]
    /\ IF ~get(meta).ok
       THEN /\ pc' = [pc EXCEPT ![p] = "failed"]
            /\ up' = [up EXCEPT ![p] =
                   [NoUp EXCEPT !.before = meta, !.err = get(meta).err]]
            /\ UNCHANGED clock
       ELSE /\ pc' = [pc EXCEPT ![p] = "patch_set"]
            /\ up' = [up EXCEPT ![p] =
                   [NoUp EXCEPT !.before = meta,
                                !.m = <<[Meta_patch(meta[1], pt)
                                           EXCEPT !.updated = clock]>>]]
            /\ clock' = clock + 1
    /\ UNCHANGED <<chunks, meta, hist, config, it>>

\* patch(ctx, bucket, object, patch) up to set_raw: get, then Meta::patch
\* unless the patch is empty
patch(p, pt) ==
    /\ Idle(p)
    /\ used.patches < MaxPatches
    /\ used' = [used EXCEPT !.patches = @ + 1]
    /\ call' = [call EXCEPT ![p] = [NoCall EXCEPT !.op = "patch",
                                                   !.patch = pt]]
    /\ rd' = [rd EXCEPT ![p] = NoRd]
    /\ IF ~get(meta).ok
       THEN /\ pc' = [pc EXCEPT ![p] = "failed"]
            /\ up' = [up EXCEPT ![p] =
                   [NoUp EXCEPT !.before = meta, !.err = get(meta).err]]
            /\ UNCHANGED clock
       ELSE IF is_empty(pt)
       THEN /\ pc' = [pc EXCEPT ![p] = "done"]
            /\ up' = [up EXCEPT ![p] = [NoUp EXCEPT !.before = meta, !.m = meta]]
            /\ UNCHANGED clock
       ELSE /\ pc' = [pc EXCEPT ![p] = "patch_set"]
            /\ up' = [up EXCEPT ![p] =
                   [NoUp EXCEPT !.before = meta,
                                !.m = <<[Meta_patch(meta[1], pt)
                                           EXCEPT !.updated = clock]>>]]
            /\ clock' = clock + 1
    /\ UNCHANGED <<chunks, meta, hist, config, it>>

\* set_raw with CreateNewRevision stores the patched Meta
patch_set(p) ==
    /\ pc[p] = "patch_set"
    /\ meta' = up[p].m
    /\ pc' = [pc EXCEPT ![p] = "done"]
    /\ up' = [up EXCEPT ![p].wrote = TRUE]
    /\ UNCHANGED <<chunks, clock, call, rd, hist, used, config, it>>

(***************************************************************************)
(* object/meta.rs: get;  object/mod.rs: delete                             *)
(***************************************************************************)

\* get(ctx, bucket, name), called for itself (a HEAD request)
meta_get(p) ==
    /\ Idle(p)
    /\ call' = [call EXCEPT ![p] = [NoCall EXCEPT !.op = "get"]]
    /\ pc' = [pc EXCEPT ![p] = IF get(meta).ok THEN "done" ELSE "failed"]
    /\ up' = [up EXCEPT ![p] = [NoUp EXCEPT !.before = meta,
                                            !.m = get(meta).m,
                                            !.err = get(meta).err]]
    /\ rd' = [rd EXCEPT ![p] = NoRd]
    /\ UNCHANGED <<chunks, meta, clock, hist, used, config, it>>

NoChunks == [n \in {} |-> <<>>]

\* Fs::remove_folder on the object's folder, which exists once a file was
\* stored in it: the folder goes with every file in it
remove_folder(cs, m) ==
    IF m = <<>> /\ DOMAIN cs = {}
    THEN [ok |-> FALSE, err |-> "NoSuchFileOrFolder", chunks |-> cs, meta |-> m]
    ELSE [ok |-> TRUE, err |-> "", chunks |-> NoChunks, meta |-> <<>>]

\* remove_folder that removes the meta file and leaves the chunk files
remove_meta_only(cs, m) ==
    IF m = <<>> /\ DOMAIN cs = {}
    THEN [ok |-> FALSE, err |-> "NoSuchFileOrFolder", chunks |-> cs, meta |-> m]
    ELSE [ok |-> TRUE, err |-> "", chunks |-> cs, meta |-> <<>>]

\* delete that removes the object's meta file alone
delete_meta_only(p) ==
    /\ Idle(p)
    /\ used.deletes < MaxDeletes
    /\ used' = [used EXCEPT !.deletes = @ + 1]
    /\ call' = [call EXCEPT ![p] = [NoCall EXCEPT !.op = "delete"]]
    /\ rd' = [rd EXCEPT ![p] = NoRd]
    /\ LET r == remove_meta_only(chunks, meta)
       IN  /\ chunks' = r.chunks
           /\ meta' = r.meta
           /\ pc' = [pc EXCEPT ![p] = IF r.ok THEN "done" ELSE "failed"]
           /\ up' = [up EXCEPT ![p] = [NoUp EXCEPT !.before = meta,
                                                   !.err = r.err]]
           /\ hist' = IF r.ok
                      THEN Append(hist, [offset |-> 0, len |-> 0,
                                         tag |-> used.uploads,
                                         res |-> "deleted",
                                         prev |-> 0, size |-> 0])
                      ELSE hist
    /\ UNCHANGED <<clock, config, it>>

\* delete(ctx, bucket, object): remove_folder on the object's folder.  A
\* successful delete enters the history with the tag of the last upload
\* before it.
delete(p) ==
    /\ Idle(p)
    /\ used.deletes < MaxDeletes
    /\ used' = [used EXCEPT !.deletes = @ + 1]
    /\ call' = [call EXCEPT ![p] = [NoCall EXCEPT !.op = "delete"]]
    /\ rd' = [rd EXCEPT ![p] = NoRd]
    /\ LET r == remove_folder(chunks, meta)
       IN  /\ chunks' = r.chunks
           /\ meta' = r.meta
           /\ pc' = [pc EXCEPT ![p] = IF r.ok THEN "done" ELSE "failed"]
           /\ up' = [up EXCEPT ![p] = [NoUp EXCEPT !.before = meta,
                                                   !.err = r.err]]
           /\ hist' = IF r.ok
                      THEN Append(hist, [offset |-> 0, len |-> 0,
                                         tag |-> used.uploads,
                                         res |-> "deleted",
                                         prev |-> 0, size |-> 0])
                      ELSE hist
    /\ UNCHANGED <<clock, config, it>>

(***************************************************************************)
(* Specification of the object store: calls run one after another          *)
(***************************************************************************)

\* create with the default Patch, as a caller that uploads right after
CreateNext(p) ==
    create(p, [content_type |-> "", cache_control |-> ""])

\* upload_range with its offset and payload length drawn from the given sets
UploadNext(p, offsets, lens) ==
    \/ \E offset \in offsets, len \in lens : upload_range(p, offset, len)
    \/ get_complete_chunk(p)
    \/ get_complete_chunk_tail(p)
    \/ \E u \in up[p].inflight : upload(p, u)
    \/ upload_range_get(p)
    \/ upload_range_set(p)

\* stream_range over [0, n)
ReadNext(p) ==
    \/ \E n \in ReadLens : \E checks \in Builds(ClosedByteRange(0, n)) :
           stream_range(p, ClosedByteRange(0, n), checks)
    \/ stream_pull(p)
    \/ stream_exhausted(p)
    \/ stream_panic(p)
    \/ stream_start(p)
    \/ \E i \in 1 .. Len(rd[p].queue) : read_complete(p, i)
    \/ stream_yield(p)
    \/ stream_end(p)

\* Remote failures during upload_range
FaultNext(p) ==
    \/ chunk_read_error(p)
    \/ \E u \in up[p].inflight, stored \in BOOLEAN : upload_error(p, u, stored)
    \/ \E u \in up[p].inflight : upload_incomplete(p, u)
    \/ upload_range_set_error(p)

\* patch
PatchNext(p) ==
    \/ \E pt \in Patches : patch(p, pt)
    \/ patch_set(p)

Next ==
    \E p \in Procs :
        \/ CreateNext(p)
        \/ UploadNext(p, Offsets, Lens)
        \/ ReadNext(p)

Spec == Init /\ [][Next]_vars

(***************************************************************************)
(* Specification with patch: create, upload_range and patch, one after     *)
(* another                                                                 *)
(***************************************************************************)

PatchSpecNext ==
    \E p \in Procs :
        \/ CreateNext(p)
        \/ UploadNext(p, Offsets, Lens)
        \/ PatchNext(p)

PatchSpec == Init /\ [][PatchSpecNext]_vars

(***************************************************************************)
(* Specification with remote failures during upload_range                  *)
(***************************************************************************)

FaultOffsets == {0, 1}

FaultLens == {1, (MaxChunks - 1) * CHUNK_SIZE + 1}

FaultSpecNext ==
    \E p \in Procs :
        \/ CreateNext(p)
        \/ UploadNext(p, FaultOffsets, FaultLens)
        \/ FaultNext(p)

FaultSpec == Init /\ [][FaultSpecNext]_vars

(***************************************************************************)
(* Specification of an object's life: the root may hold an object from an  *)
(* earlier run; create with any Patch, get, upload_range, stream_range and *)
(* delete run one after another                                            *)
(***************************************************************************)

\* An object created at time 0 by create with content type text/plain
EarlierMeta == Meta(0, 0, 0, "text/plain", DefaultCacheControl)

\* A meta file whose upload was cut short after its first field
TruncatedMeta == [size |-> 0]

LifeOffsets == {0, 1}

LifeLens == {1, (MaxChunks - 1) * CHUNK_SIZE + 1}

\* The root as an earlier run left it: without the object, with the object
\* created, or with a meta file that was not completely uploaded
LifeInit ==
    /\ chunks = NoChunks
    /\ meta \in {<<>>, <<EarlierMeta>>, <<TruncatedMeta>>}
    /\ clock = 1
    /\ pc = [p \in Procs |-> "idle"]
    /\ call = [p \in Procs |-> NoCall]
    /\ up = [p \in Procs |-> NoUp]
    /\ rd = [p \in Procs |-> NoRd]
    /\ hist = <<>>
    /\ used = [creates |-> 0, uploads |-> 0, reads |-> 0, patches |-> 0,
               faults |-> 0, deletes |-> 0]
    /\ config \in Configs
    /\ it = NoIt

LifeNext ==
    \E p \in Procs :
        \/ \E pt \in Patches : create(p, pt)
        \/ meta_get(p)
        \/ UploadNext(p, LifeOffsets, LifeLens)
        \/ ReadNext(p)
        \/ delete(p)

LifeSpec == LifeInit /\ [][LifeNext]_vars

(***************************************************************************)
(* Specification with two callers whose calls overlap: every remote call   *)
(* of one caller may fall between two remote calls of the other            *)
(***************************************************************************)

ConcOffsets == {0}

ConcLens == {(MaxChunks - 1) * CHUNK_SIZE + 1}

ConcInit ==
    /\ InitStore
    /\ config \in ConcConfigs
    /\ it = NoIt

ConcNext ==
    \E p \in Procs :
        \/ CreateNext(p)
        \/ UploadNext(p, ConcOffsets, ConcLens)
        \/ ReadNext(p)

ConcSpec == ConcInit /\ [][ConcNext]_vars

(***************************************************************************)
(* Specification of the iterator alone: aligned_chunked_byte_range over a  *)
(* closed range [start, end], start <= end                                 *)
(***************************************************************************)

RangeStarts == {0, 1, 40, CHUNK_SIZE - 1, CHUNK_SIZE, CHUNK_SIZE + 1, 69420000}

\* end - start
RangeSpans ==
    {0, 1, 2, 40, CHUNK_SIZE - 40, CHUNK_SIZE - 30, CHUNK_SIZE - 1, CHUNK_SIZE,
     CHUNK_SIZE + 1, MaxChunks * CHUNK_SIZE, 2499960, 1580000}

RangeInit ==
    /\ InitStore
    /\ config = [connections |-> 1, callers |-> {"a"}]
    /\ \E start \in RangeStarts, span \in RangeSpans :
           it = [range |-> try_from_bounds(start, start + span),
                 checks |-> FALSE, pos |-> start, items |-> <<>>,
                 status |-> "running"]

\* Iterator::next
iterator_next ==
    /\ it.status = "running"
    /\ Len(it.items) < MaxItems
    /\ LET r == aligned_chunked_byte_range(it.range, it.pos, it.checks)
       IN  it' = IF r.kind = "None" THEN [it EXCEPT !.status = "done"]
                 ELSE IF r.kind = "Panic" THEN [it EXCEPT !.status = "panicked"]
                 ELSE [it EXCEPT !.pos = r.pos,
                                 !.items = Append(@, [chunk_no |-> r.chunk_no,
                                                      chunk |-> r.chunk])]
    /\ UNCHANGED <<chunks, meta, clock, pc, call, up, rd, hist, used, config>>

RangeNext == iterator_next

RangeSpec == RangeInit /\ [][RangeNext]_vars

(***************************************************************************)
(* Specification of the chunk index computation over all of u64.  A        *)
(* position is written (qh * 2^16 + ql) * CHUNK_SIZE + r with              *)
(* r < CHUNK_SIZE and ql < 2^16, so that pos / CHUNK_SIZE is the pair      *)
(* (qh, ql) and fits u32 exactly when qh < 2^16; a u32 is the pair (h, l)  *)
(* of its 16-bit halves.  (The positions of the other specifications are   *)
(* below 2^31, where the index is below 2^11 and no conversion loses bits.)*)
(***************************************************************************)

\* 2^16
U16 == 65536

\* The u64 (qh * 2^16 + ql) * CHUNK_SIZE + r
Wide(qh, ql, r) == [qh |-> qh, ql |-> ql, r |-> r]

\* (pos / (CHUNK_SIZE as u64)) as u32: the low 32 bits of the quotient
as_u32(pos) == [ok |-> TRUE, h |-> pos.qh % U16, l |-> pos.ql]

\* (pos / CHUNK_SIZE as u64).try_into(): Err when the quotient exceeds
\* u32::MAX
try_into_u32(pos) ==
    IF pos.qh < U16 THEN [ok |-> TRUE, h |-> pos.qh, l |-> pos.ql]
    ELSE [ok |-> FALSE, h |-> 0, l |-> 0]

\* pos % (CHUNK_SIZE as u64)
chunk_offset(pos) == pos.r

IndexPositions ==
    {Wide(qh, ql, r) : qh \in {0, 1, U16 - 1, U16, U16 + 1, 4096 * U16 - 1},
                       ql \in {0, 1, U16 - 1},
                       r \in {0, 1, 40, CHUNK_SIZE - 1}}

\* chunk_no + 1 in u32 leaves u32 exactly for chunk_no = u32::MAX
IndexOverflows(idx) == idx.h = U16 - 1 /\ idx.l = U16 - 1

\* chunk_no + 1 in u32, wrapping
add_one_u32(idx) ==
    IF IndexOverflows(idx) THEN [h |-> 0, l |-> 0]
    ELSE IF idx.l = U16 - 1 THEN [h |-> idx.h + 1, l |-> 0]
    ELSE [h |-> idx.h, l |-> idx.l + 1]

\* Overflow checks only matter at the position whose chunk index is u32::MAX
IndexBuilds(pos) ==
    IF pos.qh = U16 - 1 /\ pos.ql = U16 - 1 THEN BOOLEAN ELSE {FALSE}

\* cursor is the unfold state computed after the chunk at pos
NoCursor == [kind |-> "none", pos |-> Wide(0, 0, 0)]

IndexInit ==
    /\ InitStore
    /\ config = [connections |-> 1, callers |-> {"a"}]
    /\ \E pos \in IndexPositions : \E checks \in IndexBuilds(pos) :
           it = [pos |-> pos, path |-> "none", status |-> "running",
                 chunk_no |-> [h |-> 0, l |-> 0], chunk_start |-> 0,
                 checks |-> checks, cursor |-> NoCursor]

\* What the index computation leaves in the iterator record
Indexed(path, idx, off) ==
    IF idx.ok
    THEN [it EXCEPT !.path = path, !.status = "done",
                    !.chunk_no = [h |-> idx.h, l |-> idx.l],
                    !.chunk_start = off]
    ELSE [it EXCEPT !.path = path, !.status = "panicked"]

\* aligned_chunked_byte_range: chunk_no and chunk_start of the item at pos
index_read ==
    /\ it.status = "running"
    /\ it' = Indexed("read", as_u32(it.pos), chunk_offset(it.pos))
    /\ UNCHANGED <<chunks, meta, clock, pc, call, up, rd, hist, used, config>>

\* upload_range: chunk_align and chunk_no of the chunk at pos; unwrap
\* panics on Err
index_write ==
    /\ it.status = "running"
    /\ it' = Indexed("write", try_into_u32(it.pos), chunk_offset(it.pos))
    /\ UNCHANGED <<chunks, meta, clock, pc, call, up, rd, hist, used, config>>

\* upload_range: get_complete_chunk returned a chunk and the unfold state
\* becomes (CHUNK_SIZE as u64) * u64::from(chunk_no + 1)
index_advance ==
    /\ it.status = "done"
    /\ it.path = "write"
    /\ it.cursor = NoCursor
    /\ it' = IF it.checks /\ IndexOverflows(it.chunk_no)
             THEN [it EXCEPT !.cursor = [kind |-> "panic",
                                         pos |-> Wide(0, 0, 0)]]
             ELSE [it EXCEPT !.cursor =
                      [kind |-> "some",
                       pos |-> Wide(add_one_u32(it.chunk_no).h,
                                    add_one_u32(it.chunk_no).l, 0)]]
    /\ UNCHANGED <<chunks, meta, clock, pc, call, up, rd, hist, used, config>>

IndexNext == index_read \/ index_write \/ index_advance

IndexSpec == IndexInit /\ [][IndexNext]_vars

(***************************************************************************)
(* Specification of ClosedByteRange::try_from_bounds alone: the bounds     *)
(* are drawn from both ends of u64, the range is built and its end is      *)
(* read back                                                               *)
(***************************************************************************)

BoundsValues ==
    {0, 1, 3, 8, 100, CHUNK_SIZE, CHUNK_SIZE + 1, U64_MAX - 1, U64_MAX}

\* Overflow checks only matter for bounds whose arithmetic leaves u64
BoundsBuilds(first, last) ==
    IF first <= last /\ last = U64_MAX THEN BOOLEAN ELSE {FALSE}

BoundsInit ==
    /\ InitStore
    /\ config = [connections |-> 1, callers |-> {"a"}]
    /\ \E first \in BoundsValues, last \in BoundsValues :
       \E checks \in BoundsBuilds(first, last) :
           it = [first |-> first, last |-> last, checks |-> checks,
                 range |-> RangeErr, end |-> None, status |-> "args"]

\* let range = ClosedByteRange::try_from_bounds(first, last)
bounds_call ==
    /\ it.status = "args"
    /\ it' = IF it.checks /\ BoundsOverflow(it.first, it.last)
             THEN [it EXCEPT !.status = "panicked"]
             ELSE [it EXCEPT !.range = try_from_bounds(it.first, it.last),
                             !.status = "returned"]
    /\ UNCHANGED <<chunks, meta, clock, pc, call, up, rd, hist, used, config>>

\* range.end() on the range that was returned
bounds_end ==
    /\ it.status = "returned"
    /\ it.range # RangeErr
    /\ it' = IF it.checks /\ ClosedEndOverflows(it.range)
             THEN [it EXCEPT !.status = "panicked"]
             ELSE [it EXCEPT !.end = ClosedByteRange_end(it.range),
                             !.status = "measured"]
    /\ UNCHANGED <<chunks, meta, clock, pc, call, up, rd, hist, used, config>>

BoundsNext == bounds_call \/ bounds_end

BoundsSpec == BoundsInit /\ [][BoundsNext]_vars

(***************************************************************************)
(* Specification of reads beyond the object: upload_range at offset 0,     *)
(* then stream_range over ranges that may end past the chunks that exist,  *)
(* with up to MaxConn + 1 connections.  The consumer keeps polling and the *)
(* remote answers every read, so every step of a stream is taken           *)
(* eventually.                                                             *)
(***************************************************************************)

StreamConfigs == [connections : 1 .. MaxConn + 1, callers : {{"a"}}]

StreamOffsets == {0}

StreamLens == {1, (MaxChunks - 1) * CHUNK_SIZE + 1}

\* The ranges read: inside the first chunk, up to a chunk boundary, from
\* inside the first chunk into the third, and over four chunks
StreamRanges ==
    {ClosedByteRange(2, 2), ClosedByteRange(0, CHUNK_SIZE + 1),
     ClosedByteRange(0, 2 * CHUNK_SIZE + 1),
     ClosedByteRange(2, 2 * CHUNK_SIZE),
     ClosedByteRange(0, 4 * CHUNK_SIZE + 1)}

StreamInit ==
    /\ InitStore
    /\ config \in StreamConfigs
    /\ it = NoIt

\* The steps of one stream_range call and its consumer
StreamSteps(p) ==
    \/ stream_pull(p)
    \/ stream_exhausted(p)
    \/ stream_panic(p)
    \/ stream_start(p)
    \/ \E i \in 1 .. Len(rd[p].queue) : read_complete(p, i)
    \/ stream_yield(p)
    \/ stream_end(p)

StreamNext ==
    \E p \in Procs :
        \/ CreateNext(p)
        \/ UploadNext(p, StreamOffsets, StreamLens)
        \/ \E range \in StreamRanges : stream_range(p, range, FALSE)
        \/ StreamSteps(p)

StreamSpec ==
    /\ StreamInit
    /\ [][StreamNext]_vars
    /\ \A p \in Procs : WF_vars(StreamSteps(p))

(***************************************************************************)
(* jotta/src/auth.rs, jotta-fs/src/auth.rs: LegacyTokenStore.  Time is     *)
(* counted in minutes (clock).  The store is kept in `it`: access_token    *)
(* is the cached token, writer the caller holding the write lock, issued   *)
(* the number of tokens the endpoint has granted, ret what each caller's   *)
(* last call returned.                                                     *)
(***************************************************************************)

\* Duration::minutes(5)
RenewalMargin == 5

\* How far time runs, and how many tokens the endpoint grants
MaxTime == 5

MaxTokens == 2

\* expires_in of a TokenResponse, in minutes
ExpiresIn == {4, 6}

\* The two crates: jotta holds the write lock of the cache while it renews,
\* jotta-fs takes it only to store the new token
Crates == {"jotta", "jotta-fs"}

\* AccessToken::new(value, exp)
AccessToken(value, exp) == [value |-> value, exp |-> exp]

\* TokenResponse::to_access_token at time now
to_access_token(value, expires_in, now) == AccessToken(value, now + expires_in)

\* A cached token is handed out whatever its remaining life time
is_fresh_no_margin(access_token, now) == access_token.exp >= now

\* access_token.exp() >= now + Duration::minutes(5)
is_fresh(access_token, now) == access_token.exp >= now + RenewalMargin

\* kind: "none", "pending" (the call is renewing), "cached", "renewed" or
\* "error"; token: the token returned; at: when it returned; checked, at the
\* time checked_at: the cached token the call examined; contacted: the call
\* sent a request to the token endpoint; stored: the cache when it returned
NoRet == [kind |-> "none", token |-> AccessToken(0, 0), at |-> 0,
          checked |-> AccessToken(0, 0), checked_at |-> 0,
          contacted |-> FALSE, stored |-> AccessToken(0, 0)]

\* try_from_username_password: the cache holds the token of the login
TokenInit ==
    /\ InitStore
    /\ config = [connections |-> 1, callers |-> Procs]
    /\ \E crate \in Crates, expires_in \in ExpiresIn :
           it = [crate |-> crate,
                 access_token |-> to_access_token(1, expires_in, 1),
                 writer |-> "", issued |-> 1,
                 ret |-> [p \in Procs |-> NoRet]]

\* Time passes
tick ==
    /\ clock < MaxTime
    /\ clock' = clock + 1
    /\ UNCHANGED <<chunks, meta, pc, call, up, rd, hist, used, config, it>>

\* get_access_token up to the renewal: under the read lock, a cached token
\* that is fresh is returned
get_access_token(p) ==
    /\ Idle(p)
    /\ it.writer = ""
    /\ IF is_fresh(it.access_token, clock)
       THEN /\ pc' = [pc EXCEPT ![p] = "done"]
            /\ it' = [it EXCEPT !.ret[p] =
                   [NoRet EXCEPT !.kind = "cached", !.token = it.access_token,
                                 !.at = clock, !.checked = it.access_token,
                                 !.checked_at = clock,
                                 !.stored = it.access_token]]
       ELSE /\ pc' = [pc EXCEPT ![p] = "renew"]
            /\ it' = [it EXCEPT !.ret[p] =
                   [NoRet EXCEPT !.kind = "pending",
                                 !.checked = it.access_token,
                                 !.checked_at = clock]]
    /\ UNCHANGED <<chunks, meta, clock, call, up, rd, hist, used, config>>

\* The request to the token endpoint is sent; jotta takes the write lock
\* first and keeps it
manage_token(p) ==
    /\ pc[p] = "renew"
    /\ it.writer = ""
    /\ pc' = [pc EXCEPT ![p] = "token_request"]
    /\ it' = [it EXCEPT !.writer = IF it.crate = "jotta" THEN p ELSE "",
                        !.ret[p].contacted = TRUE]
    /\ UNCHANGED <<chunks, meta, clock, call, up, rd, hist, used, config>>

\* The endpoint grants a token: it is stored in the cache and returned
manage_token_ok(p, expires_in) ==
    /\ pc[p] = "token_request"
    /\ it.issued < MaxTokens
    /\ LET access_token == to_access_token(it.issued + 1, expires_in, clock)
       IN  it' = [it EXCEPT !.access_token = access_token,
                            !.issued = @ + 1,
                            !.writer = "",
                            !.ret[p].kind = "renewed",
                            !.ret[p].token = access_token,
                            !.ret[p].at = clock,
                            !.ret[p].stored = access_token]
    /\ pc' = [pc EXCEPT ![p] = "done"]
    /\ UNCHANGED <<chunks, meta, clock, call, up, rd, hist, used, config>>

\* The request fails: the error is returned, the cache is left as it is
manage_token_err(p) ==
    /\ pc[p] = "token_request"
    /\ it' = [it EXCEPT !.writer = "",
                        !.ret[p].kind = "error",
                        !.ret[p].at = clock,
                        !.ret[p].stored = it.access_token]
    /\ pc' = [pc EXCEPT ![p] = "failed"]
    /\ UNCHANGED <<chunks, meta, clock, call, up, rd, hist, used, config>>

TokenNext ==
    \/ tick
    \/ \E p \in Procs :
           \/ get_access_token(p)
           \/ manage_token(p)
           \/ \E expires_in \in ExpiresIn : manage_token_ok(p, expires_in)
           \/ manage_token_err(p)

TokenSpec == TokenInit /\ [][TokenNext]_vars

(***************************************************************************)
(* jotta-osd/src/bucket.rs: list, create and delete on the folders of the  *)
(* root.  The store is kept in `it`: folders is the remote's listing of    *)
(* the root (a folder put in the trash stays listed, marked deleted),      *)
(* made the set of buckets created and not deleted since, op the last      *)
(* call, listed what the last list returned, err the error of the last     *)
(* call.                                                                   *)
(***************************************************************************)

BucketNames == {"my-bucket", "can", "tmp"}

\* jfs::Folder
Folder(name, deleted) == [name |-> name, deleted |-> deleted]

\* Folder::is_deleted
is_deleted(f) == f.deleted

IsListed(f) == ~is_deleted(f)

\* impl From<Folder> for Bucket
Bucket(f) == [name |-> f.name]

\* The folders other than `name`
RECURSIVE Without(_, _)
Without(folders, name) ==
    IF folders = <<>> THEN <<>>
    ELSE IF Head(folders).name = name THEN Without(Tail(folders), name)
    ELSE <<Head(folders)>> \o Without(Tail(folders), name)

HasFolder(folders, name) ==
    \E i \in 1 .. Len(folders) :
        folders[i].name = name /\ ~folders[i].deleted

\* Fs::create_folder: the folder exists afterwards; creating a folder that
\* exists returns it (Context::initialize does so at every start)
create_folder(folders, name) ==
    IF HasFolder(folders, name) THEN folders
    ELSE Append(Without(folders, name), Folder(name, FALSE))

\* Fs::remove_folder on a folder of the root: the remote drops the folder or
\* keeps it in the trash, listed as deleted
remove_bucket_folder(folders, name, trash) ==
    IF trash
    THEN [i \in 1 .. Len(folders) |->
             IF folders[i].name = name THEN Folder(name, TRUE) ELSE folders[i]]
    ELSE Without(folders, name)

\* Fs::index of the root: index.folders.inner
index(folders) == folders

\* list that maps every folder of the index to a bucket
list_unfiltered(folders) ==
    [i \in 1 .. Len(index(folders)) |-> Bucket(index(folders)[i])]

\* bucket::list: the folders of the index that are not deleted, as buckets
list(folders) ==
    LET live == SelectSeq(index(folders), IsListed)
    IN  [i \in 1 .. Len(live) |-> Bucket(live[i])]

\* Context::initialize on a root that was removed before: no folder
BucketInit ==
    /\ InitStore
    /\ config = [connections |-> 1, callers |-> {"a"}]
    /\ it = [folders |-> <<>>, made |-> {}, op |-> "none",
             listed |-> <<>>, err |-> ""]

\* bucket::list
bucket_list ==
    /\ it' = [it EXCEPT !.op = "list", !.listed = list(it.folders),
                        !.err = ""]
    /\ UNCHANGED <<chunks, meta, clock, pc, call, up, rd, hist, used, config>>

\* bucket::create
bucket_create(name) ==
    /\ it' = [it EXCEPT !.op = "create",
                        !.folders = create_folder(@, name),
                        !.made = @ \cup {name}, !.err = ""]
    /\ UNCHANGED <<chunks, meta, clock, pc, call, up, rd, hist, used, config>>

\* bucket::delete
bucket_delete(name, trash) ==
    /\ it' = IF HasFolder(it.folders, name)
             THEN [it EXCEPT !.op = "delete",
                             !.folders = remove_bucket_folder(@, name, trash),
                             !.made = @ \ {name}, !.err = ""]
             ELSE [it EXCEPT !.op = "delete", !.err = "NoSuchFileOrFolder"]
    /\ UNCHANGED <<chunks, meta, clock, pc, call, up, rd, hist, used, config>>

BucketNext ==
    \/ bucket_list
    \/ \E name \in BucketNames : bucket_create(name)
    \/ \E name \in BucketNames, trash \in BOOLEAN : bucket_delete(name, trash)

BucketSpec == BucketInit /\ [][BucketNext]_vars

(***************************************************************************)
(* Specification of the iterator over an open-ended range:                 *)
(* aligned_chunked_byte_range(OpenByteRange::new(start)) with start        *)
(* anywhere in u64, positions written as in the chunk index computation    *)
(***************************************************************************)

\* The quotient of u64::MAX by CHUNK_SIZE is 2^44 - 1 = (MaxQh, U16 - 1)
MaxQh == 4096 * U16 - 1

\* pos lies in the last chunk of u64, where u64::MAX - pos < CHUNK_SIZE
InLastChunk(pos) == pos.qh = MaxQh /\ pos.ql = U16 - 1

\* (range.end().unwrap_or(u64::MAX) - pos).min(CHUNK_SIZE as _) for an open
\* range: u64::MAX - pos is CHUNK_SIZE - 1 - r in the last chunk and at
\* least CHUNK_SIZE before it
open_chunk_end(pos) ==
    IF InLastChunk(pos) THEN CHUNK_SIZE - 1 - pos.r ELSE CHUNK_SIZE

\* pos + n for n <= CHUNK_SIZE - pos.r
wide_add(pos, n) ==
    IF pos.r + n < CHUNK_SIZE THEN Wide(pos.qh, pos.ql, pos.r + n)
    ELSE IF pos.ql = U16 - 1 THEN Wide(pos.qh + 1, 0, 0)
    ELSE Wide(pos.qh, pos.ql + 1, 0)

OpenStarts == IndexPositions

OpenInit ==
    /\ InitStore
    /\ config = [connections |-> 1, callers |-> {"a"}]
    /\ \E start \in OpenStarts :
           it = [start |-> start, pos |-> start, items |-> <<>>,
                 status |-> "running"]

\* Iterator::next on the iterator over the open range
open_next ==
    /\ it.status = "running"
    /\ Len(it.items) < MaxItems
    /\ LET chunk_no == as_u32(it.pos)
           chunk_start == chunk_offset(it.pos)
           chunk_end == open_chunk_end(it.pos)
           chunk == try_from_bounds(chunk_start, chunk_end)
       IN  it' = IF chunk_end = 0 THEN [it EXCEPT !.status = "done"]
                 ELSE IF chunk = RangeErr
                 THEN [it EXCEPT !.status = "panicked"]
                 ELSE [it EXCEPT
                          !.pos = wide_add(@, chunk_end - chunk_start),
                          !.items = Append(@,
                              [chunk_no |-> [h |-> chunk_no.h,
                                             l |-> chunk_no.l],
                               chunk |-> chunk])]
    /\ UNCHANGED <<chunks, meta, clock, pc, call, up, rd, hist, used, config>>

OpenNext == open_next

OpenSpec == OpenInit /\ [][OpenNext]_vars

(***************************************************************************)
(* Specification of overlapping writers: two callers run upload_range and  *)
(* patch on one object that exists already, and every remote call of one   *)
(* caller may fall between two remote calls of the other                   *)
(***************************************************************************)

RaceOffsets == {0, 1}

RaceLens == {1, 2}

\* The object as an earlier run left it: created and empty, or with four
\* bytes in chunk 0 from an upload_range before the ones of this behaviour
RaceInit ==
    /\ \/ /\ chunks = NoChunks
          /\ meta = <<Meta(0, 0, 0, DefaultContentType, DefaultCacheControl)>>
       \/ /\ chunks = (0 :> Payload(MaxUploads + 1, 4))
          /\ meta = <<Meta(4, 0, 0, DefaultContentType, DefaultCacheControl)>>
    /\ clock = 1
    /\ pc = [p \in Procs |-> "idle"]
    /\ call = [p \in Procs |-> NoCall]
    /\ up = [p \in Procs |-> NoUp]
    /\ rd = [p \in Procs |-> NoRd]
    /\ hist = <<>>
    /\ used = [creates |-> 0, uploads |-> 0, reads |-> 0, patches |-> 0,
               faults |-> 0, deletes |-> 0]
    /\ config \in ConcConfigs
    /\ it = NoIt

RaceNext ==
    \E p \in Procs :
        \/ UploadNext(p, RaceOffsets, RaceLens)
        \/ PatchNext(p)

RaceSpec == RaceInit /\ [][RaceNext]_vars

(***************************************************************************)
(* Properties                                                              *)
(***************************************************************************)

Uploads(p) == call[p].op = "upload_range"
Streams(p) == call[p].op = "stream_range"
Returned(p) == pc[p] \in {"done", "failed", "panicked"}

\* The only upload_range so far wrote at offset 0 of a new object and succeeded
FreshUpload ==
    /\ Len(hist) = 1
    /\ hist[1].res = "ok"
    /\ hist[1].offset = 0
    /\ hist[1].tag = 1

\* C1: a payload of N bytes uploaded at offset 0 of a fresh object is stored
\* with metadata size N, and stream_range over [0, N) returns exactly the
\* N bytes in order (stated for the N >= 1 a closed range can express).
C1_RoundTrip ==
    \A p \in Procs :
        /\ (Uploads(p) /\ pc[p] = "done" /\ FreshUpload)
               => (meta # <<>> /\ meta[1].size = hist[1].len)
        /\ (/\ Streams(p) /\ Returned(p) /\ FreshUpload
            /\ hist[1].len >= 1
            /\ call[p].range = ClosedByteRange(0, hist[1].len))
               => (pc[p] = "done" /\ rd[p].out = Payload(1, hist[1].len))

\* A at offset 0 succeeded, then B at offset k with 0 < k < A succeeded
OverwriteInside ==
    /\ Len(hist) = 2
    /\ hist[1].res = "ok" /\ hist[1].offset = 0 /\ hist[1].tag = 1
    /\ hist[2].res = "ok" /\ hist[2].offset > 0
    /\ hist[2].offset < hist[1].len
    /\ hist[2].len >= 1

\* A's bytes with [k, k + B) replaced by B's bytes, A's suffix preserved
Spliced(a, k, b) ==
    BCat(BTake(Payload(1, a), k),
         BCat(Payload(2, b), BDrop(Payload(1, a), k + b)))

\* C2: after A bytes at offset 0 and B bytes at offset k, 0 < k < A, reading
\* [0, max(A, k + B)) returns A's bytes with [k, k + B) replaced by B's
\* bytes and the rest of A preserved.
C2_ReadModifyWrite ==
    \A p \in Procs :
        (/\ Streams(p) /\ Returned(p) /\ OverwriteInside
         /\ call[p].range =
                ClosedByteRange(0, Max(hist[1].len, hist[2].offset + hist[2].len)))
            => /\ pc[p] = "done"
               /\ rd[p].out = Spliced(hist[1].len, hist[2].offset, hist[2].len)

\* C3: after a successful upload_range(offset, source) the stored size is
\* max(previousSize, offset + n), n the bytes consumed from source.
C3_SizeAfterUpload ==
    \A p \in Procs :
        (Uploads(p) /\ pc[p] = "done")
            => /\ meta # <<>>
               /\ meta[1].size = Max(up[p].prev, call[p].offset + up[p].fpos)

\* C4: across successful upload_range and patch calls run one after another
\* the stored size never becomes smaller than it was.
C4_SizeMonotonic ==
    [][(meta # <<>> /\ meta' # <<>>) => meta'[1].size >= meta[1].size]_vars

\* Two uploads succeeded, the second ending before the object's end, and a
\* patch was stored after them
C4_Witness ==
    \E p \in Procs :
        /\ call[p].op = "patch" /\ up[p].wrote
        /\ Len(hist) = 2 /\ hist[1].res = "ok" /\ hist[2].res = "ok"
        /\ hist[2].offset + hist[2].len < hist[2].prev
        /\ meta[1].size = hist[2].prev

\* The chunk indices a write of len bytes at offset touches (a write of no
\* bytes inside a chunk still rewrites that chunk)
ExpectedChunks(offset, len) ==
    IF len = 0
    THEN (IF offset % CHUNK_SIZE = 0 THEN {} ELSE {offset \div CHUNK_SIZE})
    ELSE (offset \div CHUNK_SIZE) .. ((offset + len - 1) \div CHUNK_SIZE)

\* C5: within one upload_range call the metadata write is issued only after
\* every chunk upload of the call has completed successfully: while the
\* write is in progress or done, no upload is in flight, none has failed
\* and every chunk of the call was uploaded.
C5_CommitAfterUploads ==
    \A p \in Procs :
        (Uploads(p) /\ (pc[p] = "upload_set" \/ up[p].wrote))
            => /\ up[p].inflight = {}
               /\ up[p].gen = "end"
               /\ up[p].uploaded = up[p].issued
               /\ up[p].issued = ExpectedChunks(call[p].offset, call[p].len)
               /\ up[p].failed_in = ""

\* An upload_range of several chunks stored its metadata
C5_Witness ==
    \E p \in Procs :
        /\ Uploads(p) /\ up[p].wrote
        /\ Cardinality(up[p].uploaded) >= 2

\* C6: when a chunk read or chunk upload fails, upload_range returns the
\* error, issues no metadata write and leaves the stored metadata record
\* as it was before the call.
C6_FailureLeavesMeta ==
    \A p \in Procs :
        (Uploads(p) /\ pc[p] = "failed"
                    /\ up[p].failed_in \in {"chunk_read", "upload"})
            => /\ up[p].err # ""
               /\ ~up[p].wrote
               /\ meta = up[p].before

\* A chunk upload failed after an earlier chunk of the call was uploaded to
\* an existing object
C6_Witness ==
    \E p \in Procs :
        /\ Uploads(p) /\ pc[p] = "failed" /\ up[p].failed_in = "upload"
        /\ up[p].uploaded # {}
        /\ meta # <<>>

\* What reading the items one after another returns
RECURSIVE SeqRead(_)
SeqRead(items) ==
    IF items = <<>> THEN <<>>
    ELSE BCat(file_to_bytes(ChunkFile(Head(items).chunk_no), Head(items).chunk).bytes,
              SeqRead(Tail(items)))

\* The items stream_range of caller p reads, in plan order
PlanOf(p) == Plan(call[p].range, call[p].range.start, call[p].checks, MaxItems)

\* C7: whatever the completion order of the reads and whatever
\* num_connections, stream_range hands the chunk results to the consumer in
\* plan order: the output is the concatenation of the first results of the
\* plan, an error is the first failing item of the plan, and a stream that
\* ended has delivered the whole plan.
C7_InOrder ==
    \A p \in Procs :
        Streams(p) =>
            LET plan == PlanOf(p)
                n == rd[p].yielded
            IN  /\ n <= Len(plan)
                /\ rd[p].out = SeqRead(SubSeq(plan, 1, n))
                /\ \A i \in 1 .. n :
                       file_to_bytes(ChunkFile(plan[i].chunk_no), plan[i].chunk).ok
                /\ pc[p] = "done" => n = Len(plan)
                /\ pc[p] = "failed" =>
                       /\ n < Len(plan)
                       /\ rd[p].err = file_to_bytes(ChunkFile(plan[n + 1].chunk_no),
                                                    plan[n + 1].chunk).err
                       /\ rd[p].err # ""

\* A stream over several chunks ended although a later read completed
\* before an earlier one
C7_Witness ==
    \E p \in Procs :
        /\ Streams(p) /\ pc[p] = "done"
        /\ call[p].conn >= 2
        /\ rd[p].yielded >= 2
        /\ rd[p].completed[1] = 2

ObjFirst(item) == item.chunk_no * CHUNK_SIZE + item.chunk.start
ObjLast(item) == ObjFirst(item) + item.chunk.len - 1

RECURSIVE SumLen(_)
SumLen(items) ==
    IF items = <<>> THEN 0 ELSE Head(items).chunk.len + SumLen(Tail(items))

Stopped == it.status \in {"done", "panicked"}

\* C8: for a closed range [start, end], start <= end, the yielded sub-ranges
\* mapped back to object positions cover [start, end] exactly once, without
\* gaps or overlaps, and their lengths sum to end - start + 1.
C8_ExactCover ==
    Stopped =>
        /\ it.status = "done"
        /\ it.items # <<>>
        /\ ObjFirst(it.items[1]) = it.range.start
        /\ \A i \in 1 .. Len(it.items) - 1 :
               ObjFirst(it.items[i + 1]) = ObjLast(it.items[i]) + 1
        /\ ObjLast(it.items[Len(it.items)]) = ByteRange_end(it.range)
        /\ SumLen(it.items) = it.range.len

\* C9: every yielded sub-range has its first and its last byte position
\* inside [0, CHUNK_SIZE), and chunk indices are strictly ascending.
C9_WithinChunk ==
    \A i \in 1 .. Len(it.items) :
        /\ it.items[i].chunk.start >= 0
        /\ it.items[i].chunk.start < CHUNK_SIZE
        /\ it.items[i].chunk.start + it.items[i].chunk.len - 1 < CHUNK_SIZE
        /\ i > 1 => it.items[i].chunk_no > it.items[i - 1].chunk_no

\* The range spans several chunks
SpansChunks(range) ==
    range.start \div CHUNK_SIZE < ByteRange_end(range) \div CHUNK_SIZE

\* ClosedByteRange::end of a yielded sub-range
EndBound(item) == item.chunk.start + item.chunk.len - 1

\* C10: 40..=2_500_000 yields (0, 40..1_048_576), (1, 0..1_048_576),
\* (2, 0..402_848); 69_420_000..=71_000_000 yields (66, 213_984..1_048_576),
\* (67, 0..745_408); and for a closed range spanning several chunks the
\* first item starts at start mod CHUNK_SIZE, every later item starts at 0
\* and the last item's end bound is end - CHUNK_SIZE * its chunk index.
C10_Plan ==
    /\ (Stopped /\ it.range = try_from_bounds(40, 2500000))
           => /\ it.status = "done"
              /\ it.items = << [chunk_no |-> 0, chunk |-> try_from_bounds(40, 1048576)],
                               [chunk_no |-> 1, chunk |-> try_from_bounds(0, 1048576)],
                               [chunk_no |-> 2, chunk |-> try_from_bounds(0, 402848)] >>
    /\ (Stopped /\ it.range = try_from_bounds(69420000, 71000000))
           => /\ it.status = "done"
              /\ it.items = << [chunk_no |-> 66, chunk |-> try_from_bounds(213984, 1048576)],
                               [chunk_no |-> 67, chunk |-> try_from_bounds(0, 745408)] >>
    /\ (Stopped /\ SpansChunks(it.range) /\ it.items # <<>>)
           => /\ it.items[1].chunk.start = it.range.start % CHUNK_SIZE
              /\ \A i \in 2 .. Len(it.items) : it.items[i].chunk.start = 0
              /\ LET last == it.items[Len(it.items)]
                 IN  EndBound(last) =
                         ByteRange_end(it.range) - CHUNK_SIZE * last.chunk_no

\* No call is running and every upload_range so far succeeded
AllUploadsOk ==
    /\ \A p \in Procs : pc[p] \in Finished
    /\ \A i \in 1 .. Len(hist) : hist[i].res = "ok"

\* C11: after any sequence of successful upload_range calls every chunk file
\* other than the object's highest-indexed one is exactly CHUNK_SIZE bytes
\* long, and no chunk file is longer than CHUNK_SIZE.
C11_ChunkSize ==
    AllUploadsOk =>
        \A n \in DOMAIN chunks :
            /\ BLen(chunks[n]) <= CHUNK_SIZE
            /\ (\E m \in DOMAIN chunks : m > n) => BLen(chunks[n]) = CHUNK_SIZE

\* The reads of stream_range that were started and have not completed
InFlightReads(p) ==
    Cardinality({i \in 1 .. Len(rd[p].queue) :
                     rd[p].queue[i].started /\ ~rd[p].queue[i].done})

\* C12: during one upload_range call at most num_connections chunk uploads
\* are in flight, during one stream_range at most num_connections chunk
\* reads; the bound is that of the call, whatever other calls are running.
C12_BoundedConcurrency ==
    \A p \in Procs :
        /\ Uploads(p) => Cardinality(up[p].inflight) <= call[p].conn
        /\ Streams(p) => /\ InFlightReads(p) <= call[p].conn
                         /\ Len(rd[p].queue) <= call[p].conn

\* Two upload_range calls run at once, each with num_connections uploads
\* in flight: together more than num_connections
C12_Witness ==
    \E p, q \in Procs :
        /\ p # q
        /\ Uploads(p) /\ pc[p] = "upload"
        /\ Uploads(q) /\ pc[q] = "upload"
        /\ Cardinality(up[p].inflight) = call[p].conn
        /\ Cardinality(up[q].inflight) = call[q].conn
        /\ call[p].conn >= 2

\* upload_range ran twice with the same offset and the same source bytes,
\* the first run successfully
SameRetry ==
    /\ \A p \in Procs : pc[p] \in Finished
    /\ Len(hist) = 2
    /\ hist[1].res = "ok"
    /\ hist[2].offset = hist[1].offset
    /\ hist[2].len = hist[1].len

\* b with the bytes of the second run read as the same bytes of the first
RECURSIVE Retag(_)
Retag(b) ==
    IF b = <<>> THEN <<>>
    ELSE BCat(<<Run(IF Head(b).src = 2 THEN 1 ELSE Head(b).src,
                    Head(b).from, Head(b).len)>>,
              Retag(Tail(b)))

\* The chunks of a fresh object after one run that wrote n bytes at offset 0
OneRun(n) ==
    [c \in {c \in 0 .. MaxChunks : c * CHUNK_SIZE < n} |->
        PayloadSlice(1, c * CHUNK_SIZE, Min(CHUNK_SIZE, n - c * CHUNK_SIZE))]

\* C13: a second upload_range with the same offset and the same source
\* bytes as an earlier run succeeds, and leaves every chunk's content and
\* the metadata size as they were after the one run.
C13_RetryIdempotent ==
    SameRetry =>
        /\ hist[2].res = "ok"
        /\ meta # <<>> /\ meta[1].size = hist[1].size
        /\ (hist[1].offset = 0 /\ hist[1].tag = 1)
               => [c \in DOMAIN chunks |-> Retag(chunks[c])] = OneRun(hist[1].len)

\* Caller p is about to build the chunk that its upload_range starts in,
\* at an in-chunk position other than 0, and the chunk file does not exist
HeadMissing(p) ==
    /\ Uploads(p) /\ pc[p] = "upload" /\ up[p].gen = "start"
    /\ up[p].pos = call[p].offset
    /\ up[p].pos % CHUNK_SIZE # 0
    /\ (up[p].pos \div CHUNK_SIZE) \notin DOMAIN chunks

\* C14: when upload_range starts at an offset that is not a multiple of
\* CHUNK_SIZE and the addressed chunk does not exist remotely, the step
\* that builds the chunk fails the call with an error, starts no upload,
\* and leaves the chunks and the metadata as they are.
C14_MissingHeadFails ==
    [][\A p \in Procs :
           (HeadMissing(p) /\ up'[p] # up[p])
               => /\ pc'[p] = "failed"
                  /\ up'[p].err = "NoSuchFileOrFolder"
                  /\ up'[p].issued = {} /\ up'[p].inflight = {}
                  /\ ~up'[p].wrote
                  /\ chunks' = chunks
                  /\ meta' = meta]_vars

\* An upload_range to an existing object failed for the missing head of
\* the chunk at its unaligned offset
C14_Witness ==
    \E p \in Procs :
        /\ Uploads(p) /\ pc[p] = "failed"
        /\ up[p].failed_in = "chunk_read" /\ up[p].err = "NoSuchFileOrFolder"
        /\ call[p].offset % CHUNK_SIZE # 0
        /\ (call[p].offset \div CHUNK_SIZE) \notin DOMAIN chunks
        /\ meta # <<>> /\ meta = up[p].before

\* What the remote answers to the tail read caller p is about to make
TailRead(p) ==
    file_to_bytes(ChunkFile(up[p].cur[1].chunk_no),
                  OpenByteRange(BLen(up[p].cur[1].buf)))

\* C15: when get_complete_chunk fetches the tail of a partly filled chunk,
\* a not-found answer is an empty tail and the chunk is produced as it is,
\* a successful answer is appended to the chunk, and every other error
\* (range-not-satisfiable included) fails the upload_range call with it.
C15_TailErrors ==
    [][\A p \in Procs :
           (Uploads(p) /\ pc[p] = "upload" /\ up[p].gen = "tail"
                       /\ (up'[p].gen # "tail" \/ pc'[p] # "upload"))
               => LET r == TailRead(p)
                      c == up[p].cur[1]
                  IN  IF r.ok \/ r.err = "NoSuchFileOrFolder"
                      THEN /\ pc'[p] = "upload"
                           /\ up'[p].inflight = up[p].inflight \cup
                                  {[chunk_no |-> c.chunk_no,
                                    buf |-> BCat(c.buf, r.bytes)]}
                           /\ up'[p].err = ""
                      ELSE /\ pc'[p] = "failed"
                           /\ up'[p].err = r.err
                           /\ up'[p].inflight = {}
                           /\ chunks' = chunks /\ meta' = meta]_vars

\* One upload_range produced a chunk whose tail was not found, and a later
\* one failed with the range-not-satisfiable answer to its tail read
C15_Witness ==
    \E p \in Procs :
        /\ Len(hist) = 2
        /\ hist[1].res = "ok" /\ hist[1].tag = 1 /\ hist[1].offset = 0
        /\ hist[1].len = 1
        /\ chunks = (0 :> Payload(1, 1))
        /\ Uploads(p) /\ pc[p] = "failed"
        /\ up[p].failed_in = "chunk_read"
        /\ up[p].err = "RangeNotSatisfiable"

\* C16: when the remote reports a chunk upload as not fully complete,
\* upload_range returns an `incomplete upload` error to its caller (it does
\* not abort) and no metadata write follows.
C16_IncompleteIsError ==
    \A p \in Procs :
        Uploads(p) =>
            /\ pc[p] # "panicked"
            /\ up[p].err = "IncompleteUpload" => ~up[p].wrote

\* C17: create on an object without a metadata record stores a record
\* with size 0 and created = updated; create on an object whose record
\* exists fails with a conflict error and leaves the record unchanged.
C17_CreateRejectsConflict ==
    \A p \in Procs :
        call[p].op = "create" =>
            IF up[p].before = <<>>
            THEN /\ pc[p] = "done"
                 /\ meta # <<>>
                 /\ meta[1].size = 0
                 /\ meta[1].created = meta[1].updated
            ELSE /\ pc[p] = "failed"
                 /\ up[p].err = "AlreadyExists"
                 /\ meta = up[p].before

\* create failed on the object left by an earlier run
C17_Witness ==
    \E p \in Procs :
        /\ call[p].op = "create" /\ pc[p] = "failed"
        /\ meta = <<EarlierMeta>>

\* C18: metadata get returns a decode error when the stored bytes do not
\* parse as a metadata record, a not-found error when there is no meta
\* file, and the record otherwise; the same holds for the get inside
\* upload_range.
C18_GetErrors ==
    \A p \in Procs :
        /\ call[p].op = "get" =>
               IF meta = <<>>
               THEN pc[p] = "failed" /\ up[p].err = "NoSuchFileOrFolder"
               ELSE IF DOMAIN meta[1] # MetaFields
               THEN pc[p] = "failed" /\ up[p].err = "DecodeError"
               ELSE pc[p] = "done" /\ up[p].err = "" /\ up[p].m = meta
        /\ (Uploads(p) /\ pc[p] = "failed" /\ up[p].failed_in = "meta_get") =>
               IF meta = <<>>
               THEN up[p].err = "NoSuchFileOrFolder"
               ELSE DOMAIN meta[1] # MetaFields /\ up[p].err = "DecodeError"

\* get failed on a meta file that does not parse
C18_Witness ==
    \E p \in Procs :
        /\ call[p].op = "get" /\ pc[p] = "failed"
        /\ meta = <<TruncatedMeta>>
        /\ up[p].err = "DecodeError"

\* The successful deletes so far
Deletes == {i \in 1 .. Len(hist) : hist[i].res = "deleted"}

\* The run holds bytes that were uploaded before a delete
IsOld(run) == run.src # 0 /\ \E i \in Deletes : run.src <= hist[i].tag

NoOld(b) == \A k \in 1 .. Len(b) : ~IsOld(b[k])

\* C19: after a successful delete, metadata get fails with not-found and no
\* chunk is left; when the object is created again its size is 0, and no
\* chunk, no chunk under construction and no output of a read holds bytes
\* written before the delete.
C19_DeleteRemovesAll ==
    /\ \A n \in DOMAIN chunks : NoOld(chunks[n])
    /\ \A p \in Procs :
        /\ NoOld(rd[p].out)
        /\ \A u \in up[p].inflight : NoOld(u.buf)
        /\ \A k \in 1 .. Len(up[p].cur) : NoOld(up[p].cur[k].buf)
        /\ (call[p].op = "delete" /\ pc[p] = "done") =>
               /\ chunks = NoChunks
               /\ ~get(meta).ok /\ get(meta).err = "NoSuchFileOrFolder"
        /\ (call[p].op = "create" /\ pc[p] = "done" /\ Deletes # {}) =>
               meta[1].size = 0

\* Bytes were uploaded, the object was deleted and created again, and a
\* read of the old extent returned
C19_Witness ==
    \E p \in Procs :
        /\ Len(hist) = 2
        /\ hist[1].res = "ok" /\ hist[1].len >= 1
        /\ hist[2].res = "deleted"
        /\ used.creates = 1 /\ get(meta).ok /\ meta[1].size = 0
        /\ Streams(p) /\ Returned(p)
        /\ call[p].range = ClosedByteRange(0, hist[1].offset + hist[1].len)

\* C20: the chunk index and the in-chunk offset computed for a position n
\* satisfy chunkIndex * CHUNK_SIZE + offsetInChunk = n on the write path
\* and on the read path, and when the chunk index does not fit in 32 bits
\* the computation fails instead of wrapping.
C20_IndexRoundTrip ==
    it.status # "running" =>
        IF it.pos.qh < U16
        THEN /\ it.status = "done"
             /\ Wide(it.chunk_no.h, it.chunk_no.l, it.chunk_start) = it.pos
        ELSE it.status = "panicked"

\* C21: stream_range over a ClosedByteRange of length 0 is a no-op: it issues
\* no remote read, its stream ends normally with no bytes, and it raises no
\* error and no arithmetic fault.
C21_EmptyRangeNoOp ==
    \A p \in Procs :
        (Streams(p) /\ call[p].range.len = 0) =>
            /\ rd[p].pulled = 0
            /\ rd[p].out = <<>>
            /\ pc[p] \notin {"failed", "panicked"}

\* C22: ClosedByteRange::try_from_bounds(first, last) returns the
\* backwards-range error exactly when first > last; otherwise it returns a
\* range with start = first, len = last - first + 1 and end = last.
C22_TryFromBounds ==
    /\ it.status # "panicked"
    /\ it.status \in {"returned", "measured"} =>
           /\ (it.range = RangeErr) <=> (it.first > it.last)
           /\ it.first <= it.last =>
                  /\ it.range.start = it.first
                  /\ it.range.len - 1 = it.last - it.first
    /\ it.status = "measured" => it.end = it.last

\* Some chunk of the plan of caller p's stream_range does not exist
MissingInPlan(p) ==
    \E i \in 1 .. Len(PlanOf(p)) : PlanOf(p)[i].chunk_no \notin DOMAIN chunks

\* The range of caller p's stream_range ends in a chunk after the last
\* existing chunk of the object
ExtendsPast(p) ==
    /\ call[p].range.len >= 1
    /\ DOMAIN chunks # {}
    /\ \A n \in DOMAIN chunks :
           ByteRange_end(call[p].range) \div CHUNK_SIZE > n

\* C23: stream_range yields an error item when a chunk in its plan does not
\* exist remotely; for a range that extends past the last existing chunk of
\* the object the stream eventually returns an error: it neither ends
\* normally nor blocks forever.
C23_MissingChunkErrors ==
    \A p \in Procs :
        /\ (Streams(p) /\ pc[p] = "stream" /\ MissingInPlan(p))
               ~> (pc[p] = "failed")
        /\ (Streams(p) /\ pc[p] = "stream" /\ ExtendsPast(p))
               ~> (pc[p] = "failed")

\* C24: patch with an empty Patch performs no remote write, returns the
\* current metadata and leaves the stored record, `updated` included,
\* unchanged; it still fails with the not-found error when the object has no
\* metadata.
C24_EmptyPatchNoWrite ==
    \A p \in Procs :
        (call[p].op = "patch" /\ is_empty(call[p].patch)) =>
            /\ pc[p] \in {"done", "failed"}
            /\ ~up[p].wrote
            /\ meta = up[p].before
            /\ pc[p] = "done" <=> up[p].before # <<>>
            /\ pc[p] = "done" => up[p].m = up[p].before
            /\ pc[p] = "failed" => up[p].err = "NoSuchFileOrFolder"

\* An empty patch returned the metadata of an object that holds bytes
C24_Witness ==
    \E p \in Procs :
        /\ call[p].op = "patch" /\ is_empty(call[p].patch)
        /\ pc[p] = "done"
        /\ up[p].m = meta /\ meta # <<>> /\ meta[1].size > 0

\* C25: get_access_token returns the cached token without contacting the
\* token endpoint when that token expires at least five minutes in the
\* future; otherwise it renews with the refresh token, stores the new token
\* and returns it.  A token that expires in less than five minutes is never
\* returned from the cache.
C25_TokenFreshness ==
    \A p \in Procs :
        LET r == it.ret[p]
            fresh == r.checked.exp >= r.checked_at + RenewalMargin
        IN  /\ r.kind = "cached" =>
                   /\ fresh
                   /\ ~r.contacted
                   /\ r.token = r.checked
                   /\ r.token.exp >= r.at + RenewalMargin
            /\ r.kind \in {"pending", "renewed", "error"} => ~fresh
            /\ r.kind \in {"renewed", "error"} => r.contacted
            /\ r.kind = "renewed" =>
                   /\ r.token.value > r.checked.value
                   /\ r.stored = r.token

\* One caller got the cached token, the other found it too close to its
\* expiry and got a renewed one
C25_Witness ==
    \E p, q \in Procs :
        /\ it.ret[p].kind = "cached"
        /\ it.ret[p].token.exp = it.ret[p].at + RenewalMargin
        /\ it.ret[q].kind = "renewed"
        /\ it.ret[q].checked.exp = it.ret[q].checked_at + RenewalMargin - 1

\* C26: bucket::list on a freshly initialised root returns no buckets, and
\* after any sequence of bucket::create and bucket::delete calls it returns
\* exactly the buckets that were created and not deleted, each once; folders
\* the remote marks as deleted are not listed.
C26_ListBuckets ==
    it.op = "list" =>
        /\ {it.listed[i].name : i \in 1 .. Len(it.listed)} = it.made
        /\ Len(it.listed) = Cardinality(it.made)

\* A list returned two buckets while the remote still lists a third folder,
\* marked deleted
C26_Witness ==
    /\ it.op = "list"
    /\ Len(it.listed) = 2
    /\ Len(it.folders) = 3
    /\ \E i \in 1 .. 3 : it.folders[i].deleted

\* C27: metadata never claims unreadable bytes.  After successful create and
\* upload_range calls run one after another, stream_range over
\* [0, size - 1], size taken from the stored metadata (size >= 1, so that
\* the range is not empty), yields exactly size bytes and no error.
C27_SizeReadable ==
    \A p \in Procs :
        (/\ Streams(p) /\ Returned(p)
         /\ AllUploadsOk
         /\ meta # <<>> /\ meta[1].size >= 1
         /\ call[p].range = ClosedByteRange(0, meta[1].size))
            => /\ pc[p] = "done"
               /\ BLen(rd[p].out) = meta[1].size

\* The step of caller p is a return of get_complete_chunk or its move to the
\* tail read (not the completion of an upload)
ChunkStep(p) ==
    /\ Uploads(p) /\ pc[p] = "upload" /\ pc'[p] = "upload"
    /\ \/ up'[p].gen # up[p].gen
       \/ up'[p].pos # up[p].pos

\* C28: get_complete_chunk returns `no chunk produced` exactly when nothing
\* was read from the source and there was no head (in-chunk offset 0); in
\* every other case the buffer it returns is between 1 and CHUNK_SIZE bytes
\* long (the existing remote chunk being at most CHUNK_SIZE bytes).
C28_ChunkOrNone ==
    [][\A p \in Procs :
           ChunkStep(p) =>
               LET chunk_align == up[p].pos % CHUNK_SIZE
                   n == up'[p].fpos - up[p].fpos
               IN  /\ up[p].gen = "start" =>
                          (up'[p].gen = "end" <=> (chunk_align = 0 /\ n = 0))
                   /\ \A u \in up'[p].inflight \ up[p].inflight :
                          /\ BLen(u.buf) >= 1
                          /\ BLen(u.buf) <= CHUNK_SIZE]_vars

\* With nothing to read from the source, get_complete_chunk returned a
\* chunk built from a head and a tail, and then `no chunk produced`
C28_Witness ==
    \E p \in Procs :
        /\ Uploads(p) /\ pc[p] = "upload" /\ up[p].gen = "end"
        /\ call[p].offset % CHUNK_SIZE # 0 /\ call[p].len = 0
        /\ \E u \in up[p].inflight :
               /\ BLen(u.buf) > (call[p].offset % CHUNK_SIZE) + call[p].len
               /\ BLen(u.buf) < CHUNK_SIZE

MaxOf(S) == CHOOSE x \in S : \A y \in S : y <= x

\* The source bytes of caller p's call that belong to chunk u.chunk_no sit
\* in u.buf at their object positions, and the source was consumed up to
\* the last of them (fpos)
SourcePlaced(p, u, fpos) ==
    LET first == Max(call[p].offset, CHUNK_SIZE * u.chunk_no)
        last == Min(CHUNK_SIZE * (u.chunk_no + 1), call[p].offset + call[p].len)
        n == last - first
    IN  /\ n >= 0
        /\ BTake(BDrop(u.buf, first - CHUNK_SIZE * u.chunk_no), n)
               = PayloadSlice(call[p].tag, first - call[p].offset, n)
        /\ fpos = first - call[p].offset + n

\* CHUNK_SIZE * (chunkIndex + 1) as a u64, for the chunk index (h, l)
NextBoundary(idx) ==
    IF idx.l = U16 - 1 THEN Wide(idx.h + 1, 0, 0) ELSE Wide(idx.h, idx.l + 1, 0)

\* C29: within one upload_range call the chunks are generated one after
\* another from the single source: the chunk indices are consecutive from
\* floor(offset / CHUNK_SIZE), each index is produced and uploaded at most
\* once, after each chunk the cursor is CHUNK_SIZE * (chunkIndex + 1), and
\* the source bytes are placed at consecutive object positions from offset
\* on, none lost or duplicated.
C29_SequentialChunks ==
    [][/\ \A p \in Procs :
           (Uploads(p) /\ pc[p] = "upload" /\ pc'[p] = "upload") =>
               /\ \A u \in up'[p].inflight \ up[p].inflight :
                      /\ u.chunk_no \notin up[p].issued
                      /\ u.chunk_no =
                             IF up[p].issued = {}
                             THEN call[p].offset \div CHUNK_SIZE
                             ELSE MaxOf(up[p].issued) + 1
                      /\ up'[p].pos = CHUNK_SIZE * (u.chunk_no + 1)
                      /\ SourcePlaced(p, u, up'[p].fpos)
               /\ \A u \in up[p].inflight \ up'[p].inflight :
                      u.chunk_no \notin up[p].uploaded
       /\ (it' # it /\ it.status = "done" /\ it.path = "write") =>
               it'.cursor = [kind |-> "some",
                             pos |-> NextBoundary(it.chunk_no)]]_vars

\* The plan indices of the reads of queue q that were issued
StartedIdx(q) == {q[i].idx : i \in {j \in 1 .. Len(q) : q[j].started}}

\* A read of caller p's stream_range has failed
FailedReads(p) ==
    \E i \in 1 .. Len(rd[p].queue) :
        rd[p].queue[i].done /\ ~rd[p].queue[i].res.ok

\* What the read of the k-th item of caller p's plan returns
ReadResult(p, k) ==
    file_to_bytes(ChunkFile(PlanOf(p)[k].chunk_no), PlanOf(p)[k].chunk)

\* The error of the read of caller p's stream_range that failed first
FirstFailure(p) ==
    LET failed == SelectSeq(rd'[p].completed,
                            LAMBDA k : ~ReadResult(p, k).ok)
    IN  ReadResult(p, Head(failed)).err

\* C30: after the first chunk upload failure inside an upload_range call, or
\* the first chunk read failure inside a stream_range, that call issues no
\* remote call for a further chunk, and the error surfaced to the caller is
\* that first failure.
C30_StopAtFirstFailure ==
    [][\A p \in Procs :
           /\ (Streams(p) /\ pc[p] = "stream" /\ FailedReads(p)) =>
                  StartedIdx(rd'[p].queue) \subseteq StartedIdx(rd[p].queue)
           /\ (Streams(p) /\ pc[p] = "stream" /\ pc'[p] = "failed") =>
                  rd'[p].err = FirstFailure(p)
           /\ (Uploads(p) /\ pc[p] = "failed" /\ call'[p] = call[p]) =>
                  /\ up'[p] = up[p]
                  /\ pc'[p] = "failed"]_vars

\* The chunk indices an upload_range of len bytes at offset writes into:
\* from the chunk of its first byte through the chunk of its last byte
WrittenChunks(offset, len) ==
    IF len = 0 THEN {}
    ELSE (offset \div CHUNK_SIZE) .. ((offset + len - 1) \div CHUNK_SIZE)

\* The chunk file with index n in the store cs, as an optional value
ChunkIn(cs, n) == IF n \in DOMAIN cs THEN <<cs[n]>> ELSE <<>>

\* C31: a successful upload_range changes only size and updated in the
\* metadata record (created, content_type and cache_control stay as they
\* were), and the content of no chunk changes other than those from the chunk
\* of offset through the chunk holding the last written byte.
C31_UploadFrame ==
    [][/\ \A p \in Procs :
              (Uploads(p) /\ pc[p] = "upload_set" /\ pc'[p] = "done") =>
                  /\ up[p].before # <<>>
                  /\ meta' # <<>>
                  /\ meta'[1].created = up[p].before[1].created
                  /\ meta'[1].content_type = up[p].before[1].content_type
                  /\ meta'[1].cache_control = up[p].before[1].cache_control
       /\ \A n \in DOMAIN chunks \cup DOMAIN chunks' :
              ChunkIn(chunks', n) # ChunkIn(chunks, n) =>
                  \E p \in Procs :
                      /\ Uploads(p)
                      /\ pc[p] = "upload"
                      /\ n \in WrittenChunks(call[p].offset, call[p].len)]_vars

\* A successful upload_range into chunk 0 of a patched object that also has
\* chunk 1
C31_Witness ==
    \E p \in Procs :
        /\ Uploads(p)
        /\ pc[p] = "done"
        /\ up[p].wrote
        /\ up[p].uploaded = {0}
        /\ 1 \in DOMAIN chunks
        /\ up[p].before # <<>>
        /\ up[p].before[1].content_type = "text/plain"
        /\ meta[1].content_type = "text/plain"
        /\ meta[1].size # up[p].before[1].size

\* C32: for every closed range with start <= end, aligned_chunked_byte_range
\* never panics and never yields an item without advancing its position (so
\* it yields finitely many items and then ends), also for ranges that start
\* and end inside one chunk at a non-zero in-chunk offset.
C32_IteratorTerminates ==
    [][/\ it'.status # "panicked"
       /\ Len(it'.items) > Len(it.items) => it'.pos > it.pos]_vars

\* floor(start / CHUNK_SIZE) + i as a quotient (qh, ql), for i < 2^16
IndexPlus(start, i) ==
    IF start.ql + i < U16 THEN [h |-> start.qh, l |-> start.ql + i]
    ELSE [h |-> start.qh + 1, l |-> start.ql + i - U16]

\* C33: for an open-ended range starting at s, aligned_chunked_byte_range
\* never ends by itself and its i-th item (i >= 0) has chunk index
\* floor(s / CHUNK_SIZE) + i; for s = 0 every item is the same whole-chunk
\* sub-range starting at in-chunk position 0.
C33_OpenRange ==
    /\ it.status = "running"
    /\ \A i \in 1 .. Len(it.items) :
           it.items[i].chunk_no = IndexPlus(it.start, i - 1)
    /\ it.start = Wide(0, 0, 0) =>
           \A i \in 1 .. Len(it.items) :
               /\ it.items[i].chunk = it.items[1].chunk
               /\ it.items[i].chunk.start = 0
               /\ it.items[i].chunk.len >= CHUNK_SIZE

\* Caller p's upload_range stores its metadata in this step
UploadCommits(p) == Uploads(p) /\ pc[p] = "upload_set" /\ pc'[p] = "done"

\* Caller p's patch stores its metadata in this step
PatchCommits(p) ==
    call[p].op = "patch" /\ pc[p] = "patch_set" /\ pc'[p] = "done"

\* C34: when two upload_range calls on one object overlap and both succeed,
\* the stored size ends as the maximum of the previous size and both writes'
\* ends: no metadata write of one call leaves the stored size below the size
\* the other call has committed, or below the end of its own write.
C34_ConcurrentSize ==
    [][\A p \in Procs :
           UploadCommits(p) =>
               /\ meta'[1].size >= meta[1].size
               /\ meta'[1].size >= call[p].offset + call[p].len]_vars

\* C35: a non-empty patch that overlaps an upload_range on the same object
\* never replaces the size committed by the upload_range with the older size
\* it read, and the upload_range never reverts the content type or the cache
\* control committed by the patch.
C35_PatchUploadRace ==
    [][\A p \in Procs :
           /\ PatchCommits(p) => meta'[1].size = meta[1].size
           /\ UploadCommits(p) =>
                  /\ meta'[1].content_type = meta[1].content_type
                  /\ meta'[1].cache_control = meta[1].cache_control]_vars

\* The bytes n .. n + len - 1 of b
BSlice(b, n, len) == BTake(BDrop(b, n), len)

\* C36: when two upload_range calls that write disjoint byte spans inside
\* the same chunk overlap and both succeed, the chunk afterwards holds the
\* bytes of both writes.
C36_DisjointWrites ==
    \A i \in 1 .. Len(hist) : \A j \in 1 .. Len(hist) :
        (/\ i # j
         /\ hist[i].res = "ok" /\ hist[j].res = "ok"
         /\ hist[i].len >= 1 /\ hist[j].len >= 1
         /\ hist[i].offset + hist[i].len <= hist[j].offset
         /\ hist[j].offset + hist[j].len <= CHUNK_SIZE)
            => /\ 0 \in DOMAIN chunks
               /\ BSlice(chunks[0], hist[i].offset, hist[i].len)
                      = Payload(hist[i].tag, hist[i].len)
               /\ BSlice(chunks[0], hist[j].offset, hist[j].len)
                      = Payload(hist[j].tag, hist[j].len)

\* C37: no orphan chunks.  After any sequence of create, upload_range and
\* delete calls every chunk file present remotely belongs to an object whose
\* metadata record exists; upload_range on an object that was never created
\* fails with not-found without having uploaded any chunk.
C37_NoOrphanChunks ==
    /\ (\A p \in Procs : pc[p] \in Finished) =>
           (DOMAIN chunks # {} => meta # <<>>)
    /\ \A p \in Procs :
           (Uploads(p) /\ pc[p] = "failed" /\ up[p].before = <<>>) =>
               /\ up[p].err = "NoSuchFileOrFolder"
               /\ up[p].uploaded = {}

\* C38: a non-empty patch changes only the fields present in the Patch
\* (content_type, cache_control) and the updated timestamp; size and created
\* of the stored record and every chunk of the object stay as they were.
C38_PatchFrame ==
    [][\A p \in Procs :
           (PatchCommits(p) /\ ~is_empty(call[p].patch)) =>
               /\ chunks' = chunks
               /\ meta'[1].size = meta[1].size
               /\ meta'[1].created = meta[1].created
               /\ meta'[1].updated >= meta[1].updated
               /\ meta'[1].content_type =
                      IF call[p].patch.content_type # ""
                      THEN call[p].patch.content_type
                      ELSE meta[1].content_type
               /\ meta'[1].cache_control =
                      IF call[p].patch.cache_control # ""
                      THEN call[p].patch.cache_control
                      ELSE meta[1].cache_control]_vars

\* A patch of the content type alone was stored on an object that holds
\* bytes
C38_Witness ==
    \E p \in Procs :
        /\ call[p].op = "patch" /\ pc[p] = "done" /\ up[p].wrote
        /\ call[p].patch = [content_type |-> "text/plain", cache_control |-> ""]
        /\ meta[1].content_type = "text/plain"
        /\ meta[1].cache_control = DefaultCacheControl
        /\ meta[1].size > 0
        /\ meta[1].updated > meta[1].created
        /\ DOMAIN chunks # {}

\* Caller p sends its renewal request to the token endpoint in this step
SendsRenewal(p) == pc[p] = "renew" /\ pc'[p] = "token_request"

\* C39: when several callers invoke get_access_token while the cached token
\* is missing or stale, one renewal request is sent: a caller that comes to
\* renew after another caller has stored a fresh token does not renew again,
\* and the token it returns is the cached one.
C39_SingleRenewal ==
    [][\A p \in Procs :
           SendsRenewal(p) => ~is_fresh(it.access_token, clock)]_vars

====
